---- MODULE Spec2Model ----
(***************************************************************************)
(* A model of permetrics' two metric catalogs:                             *)
(*   src/permetrics/clustering.py  (class ClusteringMetric)                *)
(*   src/permetrics/regression.py  (class RegressionMetric)                *)
(*                                                                         *)
(* An evaluator instance is the state; every metric method is an action    *)
(* that reads the instance, resolves its inputs, computes the score and    *)
(* leaves the outcome (a rounded value or the exception raised) in         *)
(* `result`.  Numbers are exact rationals, NaN and +-inf (numpy's float    *)
(* outcomes of a division by zero); Python's own int/float division by     *)
(* zero is the exception ZeroDivisionError.                                *)
(***************************************************************************)
EXTENDS Integers, Sequences, FiniteSets, TLC

(***************************************************************************)
(* Bounds of the model.                                                    *)
(***************************************************************************)
\* longest label vector (number of samples N) given to a clustering metric
MaxN == 4

\* raw cluster labels as the caller writes them (not dense: encoding matters)
Labels == {3, 7}

\* values of `decimal` given at construction or per call
Decimals == {1, 2}

(***************************************************************************)
(* Optional values: Python's None and a given value.                       *)
(***************************************************************************)
None == << >>

Some(x) == << x >>

Get(o) == o[1]

(***************************************************************************)
(* Numbers.  A number is [k, n, d]: k = "rat" is n/d in lowest terms with  *)
(* d > 0; k = "nan" is NaN; k = "inf" is +inf (n = 1) or -inf (n = -1).    *)
(***************************************************************************)
Abs(x) == IF x < 0 THEN -x ELSE x

Sign(x) == IF x < 0 THEN -1 ELSE IF x = 0 THEN 0 ELSE 1

RECURSIVE GCD(_, _)
GCD(a, b) == IF b = 0 THEN a ELSE GCD(b, a % b)

RECURSIVE Pow10(_)
Pow10(e) == IF e = 0 THEN 1 ELSE 10 * Pow10(e - 1)

NaN == [k |-> "nan", n |-> 0, d |-> 1]

Inf(s) == [k |-> "inf", n |-> s, d |-> 1]

\* n/d for d # 0, in lowest terms
Rat(n, d) ==
    LET g == GCD(Abs(n), Abs(d))
        s == IF d < 0 THEN -1 ELSE 1
    IN  [k |-> "rat", n |-> (s * n) \div g, d |-> (s * d) \div g]

IntNum(n) == Rat(n, 1)

IsRat(x) == x.k = "rat"

\* numpy float division x / y (a RuntimeWarning, never an exception)
NpDiv(x, y) ==
    IF x.k = "nan" \/ y.k = "nan" THEN NaN
    ELSE IF x.k = "inf" THEN (IF y.k = "inf" THEN NaN ELSE Inf(IF y.n < 0 THEN -x.n ELSE x.n))
    ELSE IF y.k = "inf" THEN IntNum(0)
    ELSE IF y.n = 0 THEN (IF x.n = 0 THEN NaN ELSE Inf(Sign(x.n)))
    ELSE Rat(x.n * y.d, x.d * y.n)

RatAdd(x, y) ==
    IF x.k = "nan" \/ y.k = "nan" THEN NaN
    ELSE IF x.k = "inf" THEN (IF y.k = "inf" /\ y.n # x.n THEN NaN ELSE x)
    ELSE IF y.k = "inf" THEN y
    ELSE LET l == (x.d \div GCD(x.d, y.d)) * y.d
         IN  Rat(x.n * (l \div x.d) + y.n * (l \div y.d), l)

RatNeg(x) == IF IsRat(x) THEN Rat(-x.n, x.d) ELSE IF x.k = "inf" THEN Inf(-x.n) ELSE NaN

RatSub(x, y) == RatAdd(x, RatNeg(y))

RatMul(x, y) ==
    IF x.k = "nan" \/ y.k = "nan" THEN NaN
    ELSE IF x.k = "inf" \/ y.k = "inf"
         THEN (IF x.n = 0 \/ y.n = 0 THEN NaN ELSE Inf(Sign(x.n) * Sign(y.n)))
    ELSE LET g1 == GCD(Abs(x.n), y.d)
             g2 == GCD(Abs(y.n), x.d)
         IN  Rat((x.n \div g1) * (y.n \div g2), (x.d \div g2) * (y.d \div g1))

RatAbs(x) == IF IsRat(x) THEN Rat(Abs(x.n), x.d) ELSE IF x.k = "inf" THEN Inf(1) ELSE NaN

RatLess(x, y) == x.n * y.d < y.n * x.d

\* the integer nearest to a/b (b > 0), ties to the even one
RoundHalfEven(a, b) ==
    LET q == a \div b
        r == a % b
    IN  IF 2 * r < b THEN q
        ELSE IF 2 * r > b THEN q + 1
        ELSE IF q % 2 = 0 THEN q ELSE q + 1

RECURSIVE ISqrtIter(_, _, _)
ISqrtIter(f, lo, hi) ==
    IF lo >= hi THEN lo
    ELSE LET mid == (lo + hi + 1) \div 2
         IN  IF mid * mid <= f THEN ISqrtIter(f, mid, hi) ELSE ISqrtIter(f, lo, mid - 1)

\* the largest k with k*k <= f
ISqrt(f) == ISqrtIter(f, 0, IF f < 46340 THEN f ELSE 46340)

IsSquare(m) == ISqrt(m) * ISqrt(m) = m

\* np.round(s * np.sqrt(q), decimal) for a rational q >= 0 and a sign s
NpRoundSqrt(s, q, decimal) ==
    IF IsSquare(q.n) /\ IsSquare(q.d)
    THEN Rat(RoundHalfEven(s * ISqrt(q.n) * Pow10(decimal), ISqrt(q.d)), Pow10(decimal))
    ELSE LET a == q.n * Pow10(2 * decimal)
             f == a \div q.d
             r == a % q.d
             kk == ISqrt(f)
             up == f > kk * kk + kk \/ (f = kk * kk + kk /\ 4 * r >= q.d)
         IN  Rat(s * (IF up THEN kk + 1 ELSE kk), Pow10(decimal))

\* np.sqrt(x): exact when x is the square of a rational, else the number
\* [k |-> "sqrt", n, d] standing for sqrt(n/d), or for -sqrt(-n/d) when n < 0
NpSqrt(x) ==
    IF x.k = "nan" THEN NaN
    ELSE IF x.k = "inf" THEN (IF x.n > 0 THEN x ELSE NaN)
    ELSE IF x.n < 0 THEN NaN
    ELSE IF IsSquare(x.n) /\ IsSquare(x.d) THEN Rat(ISqrt(x.n), ISqrt(x.d))
    ELSE [k |-> "sqrt", n |-> x.n, d |-> x.d]

\* np.round(x, decimal): round-half-to-even at `decimal` fractional digits
NpRound(x, decimal) ==
    IF x.k = "sqrt" THEN NpRoundSqrt(Sign(x.n), Rat(Abs(x.n), x.d), decimal)
    ELSE IF ~IsRat(x) THEN x
    ELSE Rat(RoundHalfEven(x.n * Pow10(decimal), x.d), Pow10(decimal))

\* np.round(x / np.sqrt(y), decimal): numpy floats, so y = 0 gives NaN or +-inf
NpRoundDivSqrt(x, y, decimal) ==
    IF ~IsRat(x) \/ ~IsRat(y) THEN NaN
    ELSE IF y.n < 0 THEN NaN
    ELSE IF y.n = 0 THEN (IF x.n = 0 THEN NaN ELSE Inf(Sign(x.n)))
    ELSE NpRoundSqrt(Sign(x.n), NpDiv(RatMul(x, x), y), decimal)

(***************************************************************************)
(* Outcomes of a call: a returned number, or the exception raised.         *)
(***************************************************************************)
Returned(x) == [kind |-> "value", exc |-> "", val |-> << x >>]

Raised(e) == [kind |-> "error", exc |-> e, val |-> << >>]

NoResult == [kind |-> "none", exc |-> "", val |-> << >>]

(***************************************************************************)
(* The evaluator instance (ClusteringMetric.__init__) and the last call.   *)
(***************************************************************************)
VARIABLES
    self_y_true,          \* self.y_true: None or a label vector
    self_y_pred,          \* self.y_pred: None or a label vector
    self_X,               \* self.X: None or a feature matrix
    self_decimal,         \* self.decimal
    self_raise_error,     \* self.raise_error
    self_biggest_value,   \* self.biggest_value
    self_smallest_value,  \* self.smallest_value
    self_le,              \* self.le: None or the encoder of the last call
    call,                 \* the last call: metric and arguments as passed
    counts,               \* the pair counters the last call enumerated
    result,               \* the outcome of the last call
    last,                 \* an earlier call and its outcome, as the caller kept them
    frames                \* per caller, the call of a preprocessing method in progress

context == << self_y_true, self_y_pred, self_X, self_decimal, self_raise_error,
              self_biggest_value, self_smallest_value >>

vars == << self_y_true, self_y_pred, self_X, self_decimal, self_raise_error,
           self_biggest_value, self_smallest_value, self_le, call, counts, result,
           last, frames >>

(***************************************************************************)
(* Inputs.                                                                 *)
(***************************************************************************)
LabelVectors == UNION { [1..n -> Labels] : n \in 1..MaxN }

\* the label vectors of the calls that exercise input resolution
ShortVectors == { << 3, 3 >>, << 3, 7 >>, << 7, 3 >>, << 7, 7 >> }

Opt(S) == {None} \cup { Some(v) : v \in S }

OptDecimals == {None, Some(1)}

\* feature rows, and the feature matrices of N rows
Points == { << 0, 0 >>, << 3, 4 >> }

FeatureMatrices == UNION { [1..n -> Points] : n \in 1..MaxN }

ShortMatrices == { << << 0, 0 >>, << 3, 4 >> >>, << << 3, 4 >>, << 3, 4 >> >> }

\* the label vectors and features an instance is constructed with
ShortTrue == << 7, 3 >>

ShortPred == << 3, 3 >>

ShortX == << << 3, 4 >>, << 0, 0 >> >>

InstanceTrue == << 3, 3, 7, 7 >>

InstancePred == << 7, 7, 7, 3 >>

InstanceX == << << 0, 0 >>, << 3, 4 >>, << 3, 4 >>, << 0, 0 >> >>

\* a configured sentinel other than the default
CustomSmallest == IntNum(-9)

CustomBiggest == IntNum(9)

\* a call whose two label vectors are both passed passes vectors of one length
SameLength(a, b) ==
    (a # None /\ b # None) => Len(Get(a)) = Len(Get(b))

Range(v) == { v[i] : i \in DOMAIN v }

(***************************************************************************)
(* Label encoding: the sorted distinct labels become 0..K-1.               *)
(***************************************************************************)
LabelEncode(v) == [i \in DOMAIN v |-> Cardinality({ c \in Range(v) : c < v[i] })]

\* the classes_ of a fitted encoder
Classes(v) == Range(v)

format_external_clustering_data(y_true, y_pred) ==
    [y_true |-> LabelEncode(y_true), y_pred |-> LabelEncode(y_pred),
     le |-> [y_true |-> Classes(y_true), y_pred |-> Classes(y_pred)]]

\* a faulty variant: an instance without y_true scores y_pred against itself
get_processed_external_data_self_reference(y_true, y_pred, decimal) ==
    LET dec == IF decimal = None THEN self_decimal ELSE Get(decimal)
        bad == [ok |-> FALSE, y_true |-> << >>, y_pred |-> << >>, le |-> self_le, decimal |-> dec]
        good(f) == [ok |-> TRUE, y_true |-> f.y_true, y_pred |-> f.y_pred,
                    le |-> Some(f.le), decimal |-> dec]
    IN  IF y_pred = None
        THEN IF self_y_pred = None THEN bad
             ELSE IF self_y_true = None
                  THEN good(format_external_clustering_data(Get(self_y_pred), Get(self_y_pred)))
             ELSE good(format_external_clustering_data(Get(self_y_true), Get(self_y_pred)))
        ELSE IF y_true = None
             THEN good(format_external_clustering_data(Get(y_pred), Get(y_pred)))
             ELSE good(format_external_clustering_data(Get(y_true), Get(y_pred)))

\* a faulty variant: once self.le is set, the labels are encoded against the
\* classes of that encoder, not against their own
get_processed_external_data_stale(y_true, y_pred, decimal) ==
    LET dec == IF decimal = None THEN self_decimal ELSE Get(decimal)
        bad == [ok |-> FALSE, y_true |-> << >>, y_pred |-> << >>, le |-> self_le, decimal |-> dec]
        encode(v) == IF self_le = None THEN LabelEncode(v)
                     ELSE [i \in DOMAIN v |->
                              Cardinality({ c \in Get(self_le).y_pred : c < v[i] })]
        good(t, p) == [ok |-> TRUE, y_true |-> encode(t), y_pred |-> encode(p),
                       le |-> Some(format_external_clustering_data(t, p).le), decimal |-> dec]
    IN  IF y_pred = None
        THEN IF self_y_pred = None THEN bad
             ELSE IF self_y_true = None THEN bad
             ELSE good(Get(self_y_true), Get(self_y_pred))
        ELSE IF y_true = None THEN bad
             ELSE good(Get(y_true), Get(y_pred))

\* a faulty variant: a y_true passed without y_pred is scored against the
\* instance's y_pred
get_processed_external_data_mixed(y_true, y_pred, decimal) ==
    LET dec == IF decimal = None THEN self_decimal ELSE Get(decimal)
        bad == [ok |-> FALSE, y_true |-> << >>, y_pred |-> << >>, le |-> self_le, decimal |-> dec]
        good(f) == [ok |-> TRUE, y_true |-> f.y_true, y_pred |-> f.y_pred,
                    le |-> Some(f.le), decimal |-> dec]
        t == IF y_true = None THEN self_y_true ELSE y_true
    IN  IF y_pred = None
        THEN IF self_y_pred = None THEN bad
             ELSE IF t = None THEN bad
             ELSE good(format_external_clustering_data(Get(t), Get(self_y_pred)))
        ELSE IF y_true = None THEN bad
             ELSE good(format_external_clustering_data(Get(y_true), Get(y_pred)))

get_processed_external_data(y_true, y_pred, decimal) ==
    LET dec == IF decimal = None THEN self_decimal ELSE Get(decimal)
        bad == [ok |-> FALSE, y_true |-> << >>, y_pred |-> << >>, le |-> self_le, decimal |-> dec]
        good(f) == [ok |-> TRUE, y_true |-> f.y_true, y_pred |-> f.y_pred,
                    le |-> Some(f.le), decimal |-> dec]
    IN  IF y_pred = None
        THEN IF self_y_pred = None THEN bad
             ELSE IF self_y_true = None THEN bad
             ELSE good(format_external_clustering_data(Get(self_y_true), Get(self_y_pred)))
        ELSE IF y_true = None THEN bad
             ELSE good(format_external_clustering_data(Get(y_true), Get(y_pred)))

(***************************************************************************)
(* Pair enumeration: for idx in range(n): for jdx in range(idx + 1, n).    *)
(***************************************************************************)
Pairs(n) == { p \in (1..n) \X (1..n) : p[1] < p[2] }

\* the number of pairs idx < jdx that pass the test
CountPairs(n, test) == Cardinality({ p \in Pairs(n) : test[p] })

\* cu.compute_confusion_matrix: (yy, yn, ny, nn), each divided by the number
\* of pairs when normalize is set
compute_confusion_matrix(y_true, y_pred, normalize) ==
    LET n == Len(y_true)
        st(i, j) == y_true[i] = y_true[j]
        sp(i, j) == y_pred[i] = y_pred[j]
        yy == CountPairs(n, [p \in Pairs(n) |-> st(p[1], p[2]) /\ sp(p[1], p[2])])
        yn == CountPairs(n, [p \in Pairs(n) |-> st(p[1], p[2]) /\ ~sp(p[1], p[2])])
        ny == CountPairs(n, [p \in Pairs(n) |-> ~st(p[1], p[2]) /\ sp(p[1], p[2])])
        nn == CountPairs(n, [p \in Pairs(n) |-> ~st(p[1], p[2]) /\ ~sp(p[1], p[2])])
        t == IntNum((n * (n - 1)) \div 2)
    IN  IF normalize
        THEN << NpDiv(IntNum(yy), t), NpDiv(IntNum(yn), t), NpDiv(IntNum(ny), t), NpDiv(IntNum(nn), t) >>
        ELSE << IntNum(yy), IntNum(yn), IntNum(ny), IntNum(nn) >>

\* the four integer counts of a contingency tuple
CmCounts(y_true, y_pred) ==
    LET cm == compute_confusion_matrix(y_true, y_pred, FALSE)
    IN  << cm[1].n, cm[2].n, cm[3].n, cm[4].n >>

NoCounts(y_true, y_pred) == << >>

(***************************************************************************)
(* External metrics computed in clustering.py.                             *)
(***************************************************************************)
\* rand_score: a = same/same pairs, b = different/different pairs
rand_counts(y_true, y_pred) ==
    LET n_samples == Len(y_true)
    IN  << CountPairs(n_samples, [p \in Pairs(n_samples) |-> y_true[p[1]] = y_true[p[2]] /\ y_pred[p[1]] = y_pred[p[2]]]),
           CountPairs(n_samples, [p \in Pairs(n_samples) |-> y_true[p[1]] # y_true[p[2]] /\ y_pred[p[1]] # y_pred[p[2]]]) >>

rand_score(y_true, y_pred, decimal) ==
    LET n_samples == Len(y_true)
        n_pairs == n_samples * (n_samples - 1)
        ab == rand_counts(y_true, y_pred)
    IN  IF n_pairs = 0 THEN Raised("ZeroDivisionError")
        ELSE Returned(NpRound(Rat(2 * (ab[1] + ab[2]), n_pairs), decimal))

\* a faulty variant of the next: every pair split by y_true counts as a false positive
fowlkes_mallows_counts_fp_all(y_true, y_pred) ==
    LET n_samples == Len(y_true)
        a(idx, jdx) == y_true[idx] = y_true[jdx]
        b(idx, jdx) == y_pred[idx] = y_pred[jdx]
    IN  << CountPairs(n_samples, [p \in Pairs(n_samples) |-> a(p[1], p[2]) /\ b(p[1], p[2])]),
           CountPairs(n_samples, [p \in Pairs(n_samples) |-> ~a(p[1], p[2])]),
           CountPairs(n_samples, [p \in Pairs(n_samples) |-> a(p[1], p[2]) /\ ~b(p[1], p[2])]) >>

\* fowlkes_mallows_score: << TP, FP, FN >>
fowlkes_mallows_counts(y_true, y_pred) ==
    LET n_samples == Len(y_true)
        a(idx, jdx) == y_true[idx] = y_true[jdx]
        b(idx, jdx) == y_pred[idx] = y_pred[jdx]
    IN  << CountPairs(n_samples, [p \in Pairs(n_samples) |-> a(p[1], p[2]) /\ b(p[1], p[2])]),
           CountPairs(n_samples, [p \in Pairs(n_samples) |-> ~a(p[1], p[2]) /\ b(p[1], p[2])]),
           CountPairs(n_samples, [p \in Pairs(n_samples) |-> a(p[1], p[2]) /\ ~b(p[1], p[2])]) >>

fowlkes_mallows_score(y_true, y_pred, decimal) ==
    LET c == fowlkes_mallows_counts(y_true, y_pred)
        TP == c[1]
        FP == c[2]
        FN == c[3]
    IN  Returned(NpRoundDivSqrt(IntNum(TP), IntNum((TP + FP) * (TP + FN)), decimal))

\* a faulty variant of the next: only pairs joined by y_true and split by y_pred are discordant
tau_counts_one_sided(y_true, y_pred) ==
    LET n == Len(y_true)
        conc(idx, jdx) ==
            \/ y_true[idx] = y_true[jdx] /\ y_pred[idx] = y_pred[jdx]
            \/ y_true[idx] # y_true[jdx] /\ y_pred[idx] # y_pred[jdx]
    IN  << CountPairs(n, [p \in Pairs(n) |-> conc(p[1], p[2])]),
           CountPairs(n, [p \in Pairs(n) |-> y_true[p[1]] = y_true[p[2]] /\ y_pred[p[1]] # y_pred[p[2]]]) >>

\* a faulty variant of the next: the inner loop starts at 0, so every pair is
\* visited in both orders
tau_counts_both_orders(y_true, y_pred) ==
    LET n == Len(y_true)
        conc(idx, jdx) ==
            \/ y_true[idx] = y_true[jdx] /\ y_pred[idx] = y_pred[jdx]
            \/ y_true[idx] # y_true[jdx] /\ y_pred[idx] # y_pred[jdx]
    IN  << 2 * CountPairs(n, [p \in Pairs(n) |-> conc(p[1], p[2])]),
           2 * CountPairs(n, [p \in Pairs(n) |-> ~conc(p[1], p[2])]) >>

\* tau_score: << concordant_pairs, discordant_pairs >>
tau_counts(y_true, y_pred) ==
    LET n == Len(y_true)
        conc(idx, jdx) ==
            \/ y_true[idx] = y_true[jdx] /\ y_pred[idx] = y_pred[jdx]
            \/ y_true[idx] # y_true[jdx] /\ y_pred[idx] # y_pred[jdx]
    IN  << CountPairs(n, [p \in Pairs(n) |-> conc(p[1], p[2])]),
           CountPairs(n, [p \in Pairs(n) |-> ~conc(p[1], p[2])]) >>

tau_score(y_true, y_pred, decimal) ==
    LET c == tau_counts(y_true, y_pred)
    IN  IF c[1] + c[2] = 0 THEN Raised("ZeroDivisionError")
        ELSE Returned(NpRound(Rat(c[1] - c[2], c[1] + c[2]), decimal))

\* a faulty variant: the denominator takes yn where it should take ny
precision_score_yn(y_true, y_pred, decimal) ==
    LET cm == compute_confusion_matrix(y_true, y_pred, FALSE)
        yy == cm[1]
        yn == cm[2]
    IN  Returned(NpRound(NpDiv(yy, RatAdd(yy, yn)), decimal))

precision_score(y_true, y_pred, decimal) ==
    LET cm == compute_confusion_matrix(y_true, y_pred, FALSE)
        yy == cm[1]
        ny == cm[3]
    IN  Returned(NpRound(NpDiv(yy, RatAdd(yy, ny)), decimal))

recall_score(y_true, y_pred, decimal) ==
    LET cm == compute_confusion_matrix(y_true, y_pred, FALSE)
        yy == cm[1]
        yn == cm[2]
    IN  Returned(NpRound(NpDiv(yy, RatAdd(yy, yn)), decimal))

\* a faulty variant: the denominator takes nn where it should take ny
jaccard_score_nn(y_true, y_pred, decimal) ==
    LET cm == compute_confusion_matrix(y_true, y_pred, FALSE)
        yy == cm[1]
        yn == cm[2]
        nn == cm[4]
    IN  Returned(NpRound(NpDiv(yy, RatAdd(RatAdd(yy, yn), nn)), decimal))

jaccard_score(y_true, y_pred, decimal) ==
    LET cm == compute_confusion_matrix(y_true, y_pred, FALSE)
        yy == cm[1]
        yn == cm[2]
        ny == cm[3]
    IN  Returned(NpRound(NpDiv(yy, RatAdd(RatAdd(yy, yn), ny)), decimal))

\* a faulty variant: the disagreeing pairs are counted once, not twice
rogers_tanimoto_score_unweighted(y_true, y_pred, decimal) ==
    LET cm == compute_confusion_matrix(y_true, y_pred, FALSE)
        yy == cm[1]
        yn == cm[2]
        ny == cm[3]
        nn == cm[4]
        cc == NpDiv(RatAdd(yy, nn), RatAdd(RatAdd(yy, nn), RatAdd(yn, ny)))
    IN  Returned(NpRound(cc, decimal))

rogers_tanimoto_score(y_true, y_pred, decimal) ==
    LET cm == compute_confusion_matrix(y_true, y_pred, FALSE)
        yy == cm[1]
        yn == cm[2]
        ny == cm[3]
        nn == cm[4]
        cc == NpDiv(RatAdd(yy, nn),
                    RatAdd(RatAdd(yy, nn), RatMul(IntNum(2), RatAdd(yn, ny))))
    IN  Returned(NpRound(cc, decimal))

\* len(np.unique(y))
n_unique(y) == Cardinality(Range(y))

\* a faulty variant: the single-cluster fallback is the configured smallest_value
hubert_gamma_score_smallest(y_true, y_pred, decimal) ==
    LET n_clusters == n_unique(y_pred)
        cm == compute_confusion_matrix(y_true, y_pred, TRUE)
        yy == cm[1]
        yn == cm[2]
        ny == cm[3]
        nn == cm[4]
        NT == RatAdd(RatAdd(yy, yn), RatAdd(ny, nn))
        num == RatSub(RatMul(NT, yy), RatMul(RatAdd(yy, yn), RatAdd(yy, ny)))
        den == RatMul(RatMul(RatAdd(yy, yn), RatAdd(yy, ny)),
                      RatMul(RatAdd(nn, yn), RatAdd(nn, ny)))
    IN  IF n_clusters = 1
        THEN IF self_raise_error THEN Raised("ValueError") ELSE Returned(self_smallest_value)
        ELSE Returned(NpRoundDivSqrt(num, den, decimal))

hubert_gamma_score(y_true, y_pred, decimal) ==
    LET n_clusters == n_unique(y_pred)
        cm == compute_confusion_matrix(y_true, y_pred, TRUE)
        yy == cm[1]
        yn == cm[2]
        ny == cm[3]
        nn == cm[4]
        NT == RatAdd(RatAdd(yy, yn), RatAdd(ny, nn))
        num == RatSub(RatMul(NT, yy), RatMul(RatAdd(yy, yn), RatAdd(yy, ny)))
        den == RatMul(RatMul(RatAdd(yy, yn), RatAdd(yy, ny)),
                      RatMul(RatAdd(nn, yn), RatAdd(nn, ny)))
    IN  IF n_clusters = 1
        THEN IF self_raise_error THEN Raised("ValueError") ELSE Returned(IntNum(-1))
        ELSE Returned(NpRoundDivSqrt(num, den, decimal))

\* a faulty variant: no single-cluster check before the division
phi_score_unguarded(y_true, y_pred, decimal) ==
    LET cm == compute_confusion_matrix(y_true, y_pred, TRUE)
        yy == cm[1]
        yn == cm[2]
        ny == cm[3]
        nn == cm[4]
        numerator == RatSub(RatMul(yy, nn), RatMul(yn, ny))
        denominator == RatMul(RatMul(RatAdd(yy, yn), RatAdd(yy, ny)),
                              RatMul(RatAdd(yn, nn), RatAdd(ny, nn)))
    IN  Returned(NpRound(NpDiv(numerator, denominator), decimal))

phi_score(y_true, y_pred, decimal) ==
    LET n_clusters == n_unique(y_pred)
        cm == compute_confusion_matrix(y_true, y_pred, TRUE)
        yy == cm[1]
        yn == cm[2]
        ny == cm[3]
        nn == cm[4]
        numerator == RatSub(RatMul(yy, nn), RatMul(yn, ny))
        denominator == RatMul(RatMul(RatAdd(yy, yn), RatAdd(yy, ny)),
                              RatMul(RatAdd(yn, nn), RatAdd(ny, nn)))
    IN  IF n_clusters = 1
        THEN IF self_raise_error THEN Raised("ValueError") ELSE Returned(self_smallest_value)
        ELSE Returned(NpRound(NpDiv(numerator, denominator), decimal))

\* np.bincount(y_pred[class_indices]): occurrences of 0..max among the
\* predicted labels of the samples in class_indices
bincount(y_pred, class_indices) ==
    LET mx == CHOOSE m \in { y_pred[i] : i \in class_indices } :
                  \A i \in class_indices : y_pred[i] <= m
    IN  [l \in 0..mx |-> Cardinality({ i \in class_indices : y_pred[i] = l })]

MaxOf(f) == CHOOSE m \in Range(f) : \A x \in Range(f) : x <= m

\* the sum of the integers f[x], x in S
RECURSIVE SumOver(_, _)
SumOver(S, f) ==
    IF S = {} THEN 0
    ELSE LET x == CHOOSE y \in S : TRUE IN f[x] + SumOver(S \ {x}, f)

\* the sum of the numbers f[x], x in S
RECURSIVE RatSumOver(_, _)
RatSumOver(S, f) ==
    IF S = {} THEN IntNum(0)
    ELSE LET x == CHOOSE y \in S : TRUE IN RatAdd(f[x], RatSumOver(S \ {x}, f))

\* a faulty variant: np.min of the class counts where np.max is meant
purity_score_min(y_true, y_pred, decimal) ==
    LET N == Len(y_true)
        unique_classes == Range(y_true)
        class_indices(c) == { i \in DOMAIN y_true : y_true[i] = c }
        np_min(f) == CHOOSE m \in Range(f) : \A x \in Range(f) : m <= x
        purity == SumOver(unique_classes,
                          [c \in unique_classes |-> np_min(bincount(y_pred, class_indices(c)))])
    IN  Returned(NpRound(Rat(purity, N), decimal))

\* a faulty variant: the classes are those of y_pred and the majority is
\* taken among the true labels of each
purity_score_by_cluster(y_true, y_pred, decimal) ==
    LET N == Len(y_true)
        unique_classes == Range(y_pred)
        class_indices(c) == { i \in DOMAIN y_pred : y_pred[i] = c }
        purity == SumOver(unique_classes,
                          [c \in unique_classes |-> MaxOf(bincount(y_true, class_indices(c)))])
    IN  Returned(NpRound(Rat(purity, N), decimal))

purity_score(y_true, y_pred, decimal) ==
    LET N == Len(y_true)
        unique_classes == Range(y_true)
        class_indices(c) == { i \in DOMAIN y_true : y_true[i] = c }
        purity == SumOver(unique_classes,
                          [c \in unique_classes |-> MaxOf(bincount(y_pred, class_indices(c)))])
    IN  Returned(NpRound(Rat(purity, N), decimal))

\* log2(m) in units of 1e-4, for the counts a label vector can hold
Log2E4(m) ==
    CASE m = 1 -> 0      [] m = 2 -> 10000  [] m = 3 -> 15850  [] m = 4 -> 20000
      [] m = 5 -> 23219  [] m = 6 -> 25850  [] m = 7 -> 28074  [] m = 8 -> 30000

\* cu.calculate_entropy(distribution, base=2): -sum p*log2(p) over p > 0
calculate_entropy(distribution) ==
    RatSumOver(DOMAIN distribution, [l \in DOMAIN distribution |->
        LET p == distribution[l]
        IN  IF p.n = 0 THEN IntNum(0)
            ELSE RatMul(p, Rat(Log2E4(p.d) - Log2E4(p.n), 10000))])

entropy_score(y_true, y_pred, decimal) ==
    LET N == Len(y_true)
        unique_classes == Range(y_true)
        class_indices(c) == { i \in DOMAIN y_true : y_true[i] = c }
        term(c) ==
            LET class_counts == bincount(y_pred, class_indices(c))
                cluster_size == Cardinality(class_indices(c))
                class_distribution == [l \in DOMAIN class_counts |->
                                          Rat(class_counts[l], cluster_size)]
            IN  RatMul(Rat(cluster_size, N), calculate_entropy(class_distribution))
    IN  Returned(NpRound(RatSumOver(unique_classes, [c \in unique_classes |-> term(c)]), decimal))

\* x / y for numpy floats, cancelling common factors before multiplying
NpTrueDivide(x, y) ==
    IF IsRat(x) /\ IsRat(y) /\ y.n # 0 THEN RatMul(x, Rat(y.d, y.n)) ELSE NpDiv(x, y)

\* the entropy of the labels of a vector: the shares of its distinct labels
label_entropy(labels) ==
    calculate_entropy([l \in Range(labels) |->
        Rat(Cardinality({ i \in DOMAIN labels : labels[i] = l }), Len(labels))])

\* the conditional entropy of `labels` given `given`: over the groups of
\* `given`, the entropy of `labels` inside the group weighted by its share
conditional_entropy(labels, given) ==
    LET members(g) == { i \in DOMAIN given : given[i] = g }
    IN  RatSumOver(Range(given), [g \in Range(given) |->
            RatMul(Rat(Cardinality(members(g)), Len(given)),
                   calculate_entropy([l \in Range(labels) |->
                       Rat(Cardinality({ i \in members(g) : labels[i] = l }),
                           Cardinality(members(g)))]))])

\* cu.compute_homogeneity(y_true, y_pred): 1 - H(true | pred) / H(true), and
\* 1 when y_true holds a single class (every cluster is then homogeneous)
compute_homogeneity(y_true, y_pred) ==
    LET h_true == label_entropy(y_true)
    IN  IF h_true = IntNum(0) THEN IntNum(1)
        ELSE RatSub(IntNum(1), NpTrueDivide(conditional_entropy(y_true, y_pred), h_true))

homogeneity_score(y_true, y_pred, decimal) ==
    LET cc == compute_homogeneity(y_true, y_pred)
    IN  Returned(NpRound(cc, decimal))

\* a faulty variant: the arguments of compute_homogeneity are not exchanged
completeness_score_unswapped(y_true, y_pred, decimal) ==
    LET cc == compute_homogeneity(y_true, y_pred)
    IN  Returned(NpRound(cc, decimal))

completeness_score(y_true, y_pred, decimal) ==
    LET cc == compute_homogeneity(y_pred, y_true)
    IN  Returned(NpRound(cc, decimal))

\* 2 * (h * c) / (h + c), or 0 when h + c == 0
harmonic_mean(h, c) ==
    IF RatAdd(h, c) = IntNum(0) THEN IntNum(0)
    ELSE NpTrueDivide(RatMul(IntNum(2), RatMul(h, c)), RatAdd(h, c))

v_measure_score(y_true, y_pred, decimal) ==
    LET h == compute_homogeneity(y_true, y_pred)
        c == compute_homogeneity(y_pred, y_true)
    IN  Returned(NpRound(harmonic_mean(h, c), decimal))

\* the external metrics whose formula is not followed here: they resolve
\* their inputs like the others and then compute a score
OtherExternal == { "mutual_info_score", "normalized_mutual_info_score",
                   "f_measure_score", "czekanowski_dice_score", "kulczynski_score",
                   "mc_nemar_score", "russel_rao_score",
                   "sokal_sneath1_score", "sokal_sneath2_score" }

Computed == [kind |-> "score", exc |-> "", val |-> << >>]

other_external_score(y_true, y_pred, decimal) == Computed

(***************************************************************************)
(* Internal metrics computed in clustering.py.                             *)
(***************************************************************************)
format_internal_clustering_data(y_pred) ==
    [y_pred |-> LabelEncode(y_pred), le |-> [y_pred |-> Classes(y_pred)]]

get_processed_internal_data(y_pred, decimal) ==
    LET dec == IF decimal = None THEN self_decimal ELSE Get(decimal)
        good(f) == [ok |-> TRUE, y_pred |-> f.y_pred, le |-> Some(f.le), decimal |-> dec]
    IN  IF y_pred = None
        THEN IF self_y_pred = None
             THEN [ok |-> FALSE, y_pred |-> << >>, le |-> self_le, decimal |-> dec]
             ELSE good(format_internal_clustering_data(Get(self_y_pred)))
        ELSE good(format_internal_clustering_data(Get(y_pred)))

check_X(X) ==
    IF X = None
    THEN IF self_X = None THEN [ok |-> FALSE, X |-> << >>] ELSE [ok |-> TRUE, X |-> Get(self_X)]
    ELSE [ok |-> TRUE, X |-> Get(X)]

\* the sum over the features of f[x][k], as a number
RECURSIVE VecSum(_, _)
VecSum(S, f) ==
    IF S = {} THEN << IntNum(0), IntNum(0) >>
    ELSE LET x == CHOOSE y \in S : TRUE
             r == VecSum(S \ {x}, f)
         IN  << RatAdd(f[x][1], r[1]), RatAdd(f[x][2], r[2]) >>

\* the mean feature vector of the rows in idx
Centroid(X, idx) ==
    LET s == VecSum(idx, [i \in idx |-> << IntNum(X[i][1]), IntNum(X[i][2]) >>])
        m == IntNum(Cardinality(idx))
    IN  << NpDiv(s[1], m), NpDiv(s[2], m) >>

\* ||a - b||^2
SqDist(a, b) ==
    LET d1 == RatSub(a[1], b[1])
        d2 == RatSub(a[2], b[2])
    IN  RatAdd(RatMul(d1, d1), RatMul(d2, d2))

Row(X, i) == << IntNum(X[i][1]), IntNum(X[i][2]) >>

\* cu.compute_BGSS: sum over clusters of size_c * ||centroid_c - global_mean||^2
compute_BGSS(X, y_pred) ==
    LET members(c) == { i \in DOMAIN y_pred : y_pred[i] = c }
        G == Centroid(X, DOMAIN X)
    IN  RatSumOver(Range(y_pred), [c \in Range(y_pred) |->
            RatMul(IntNum(Cardinality(members(c))), SqDist(Centroid(X, members(c)), G))])

\* cu.compute_WGSS: sum over samples of ||x_i - centroid(label_i)||^2
compute_WGSS(X, y_pred) ==
    LET members(c) == { i \in DOMAIN y_pred : y_pred[i] = c }
    IN  RatSumOver(DOMAIN X, [i \in DOMAIN X |->
            SqDist(Row(X, i), Centroid(X, members(y_pred[i])))])

\* np.round(np.log(q), decimal): log(0) = -inf, log(inf) = inf, log of a
\* negative number or NaN is NaN; log(1) = 0; otherwise the term is kept
NpRoundLog(q, decimal) ==
    IF q.k = "nan" THEN NaN
    ELSE IF q.k = "inf" THEN (IF q.n > 0 THEN Inf(1) ELSE NaN)
    ELSE IF q.n < 0 THEN NaN
    ELSE IF q.n = 0 THEN Inf(-1)
    ELSE IF q.n = q.d THEN IntNum(0)
    ELSE [k |-> "round_ln", n |-> q.n, d |-> q.d, decimal |-> decimal]

log_ss_ratio_index(X, y_pred, decimal) ==
    LET n_clusters == n_unique(y_pred)
        bgss == compute_BGSS(X, y_pred)
        wgss == compute_WGSS(X, y_pred)
    IN  IF n_clusters = 1
        THEN IF self_raise_error THEN Raised("ValueError") ELSE Returned(self_smallest_value)
        ELSE Returned(NpRoundLog(NpDiv(bgss, wgss), decimal))

\* the position of the sample pair (i, j), i < j, in the enumeration
\* for idx in range(n - 1): for jdx in range(idx + 1, n)
pair_index(i, j, n) == (i - 1) * n - (i * (i - 1)) \div 2 + (j - i)

\* the sample pair enumerated at position k
pair_at(k, n) ==
    CHOOSE q \in (1..n) \X (1..n) : q[1] < q[2] /\ pair_index(q[1], q[2], n) = k

\* distances[k]: np.linalg.norm(X[idx] - X[jdx]), kept as its square (the
\* square root is increasing, so < and > on the norms are < and > on these)
pair_distances(X) ==
    LET n == Len(X)
    IN  [k \in 1..((n * (n - 1)) \div 2) |->
            SqDist(Row(X, pair_at(k, n)[1]), Row(X, pair_at(k, n)[2]))]

\* binary_vector[k]: 0 for a pair inside one cluster, 1 for a pair across two
pair_binary_vector(y_pred) ==
    LET n == Len(y_pred)
    IN  [k \in 1..((n * (n - 1)) \div 2) |->
            IF y_pred[pair_at(k, n)[1]] = y_pred[pair_at(k, n)[2]] THEN 0 ELSE 1]

\* the double loop over positions idx < jdx of the two pair vectors
baker_hubert_counts(distances, binary_vector) ==
    LET n_pairs == Len(distances)
        visited == { c \in (1..n_pairs) \X (1..n_pairs) :
                        /\ c[1] < c[2]
                        /\ binary_vector[c[1]] = 0
                        /\ binary_vector[c[2]] = 1 }
    IN  [s_plus |-> Cardinality({ c \in visited : RatLess(distances[c[1]], distances[c[2]]) }),
         s_minus |-> Cardinality({ c \in visited : RatLess(distances[c[2]], distances[c[1]]) })]

baker_hubert_gamma_index(X, y_pred, decimal) ==
    LET c == baker_hubert_counts(pair_distances(X), pair_binary_vector(y_pred))
        denominator == c.s_plus + c.s_minus
        gamma_index == IF denominator # 0 THEN Rat(c.s_plus - c.s_minus, denominator)
                       ELSE IntNum(0)
    IN  Returned(NpRound(gamma_index, decimal))

\* g_plus_index allocates the two pair vectors with np.zeros and never fills
\* them before its double loop
g_plus_vectors(X) ==
    LET n == Len(X)
        n_pairs == (n * (n - 1)) \div 2
    IN  [distances |-> [k \in 1..n_pairs |-> IntNum(0)],
         binary_vector |-> [k \in 1..n_pairs |-> 0]]

g_plus_counts(X) ==
    LET v == g_plus_vectors(X)
        n_pairs == Len(v.distances)
    IN  [num_discordant_pairs |->
            Cardinality({ c \in (1..n_pairs) \X (1..n_pairs) :
                            /\ c[1] < c[2]
                            /\ v.binary_vector[c[1]] = 0
                            /\ v.binary_vector[c[2]] = 1
                            /\ RatLess(v.distances[c[2]], v.distances[c[1]]) }),
         n_pairs |-> n_pairs]

\* 2 * num_discordant_pairs / (n_pairs * (n_pairs - 1)) on Python ints: a zero
\* divisor raises ZeroDivisionError
g_plus_index(X, y_pred, decimal) ==
    LET c == g_plus_counts(X)
        divisor == c.n_pairs * (c.n_pairs - 1)
    IN  IF divisor = 0 THEN Raised("ZeroDivisionError")
        ELSE Returned(NpRound(Rat(2 * c.num_discordant_pairs, divisor), decimal))

\* the internal metrics whose formula is not followed here
OtherInternal == { "ball_hall_index", "calinski_harabasz_index", "xie_beni_index",
                   "banfeld_raftery_index", "davies_bouldin_index", "det_ratio_index",
                   "dunn_index", "ksq_detw_index", "log_det_ratio_index",
                   "silhouette_index", "sum_squared_error_index", "duda_hart_index",
                   "beale_index", "r_squared_index",
                   "density_based_clustering_validation_index", "hartigan_index" }

other_internal_index(X, y_pred, decimal) == Computed

(***************************************************************************)
(* Construction.                                                           *)
(***************************************************************************)
NoCall == [metric |-> "", y_true |-> None, y_pred |-> None, X |-> None, decimal |-> None]

\* nothing kept from an earlier call
NoLast == [call |-> NoCall, result |-> NoResult, counts |-> << >>]

\* the callers that share one instance, none of them inside a call
Callers == {1, 2}

IdleFrame == [pc |-> "idle", method |-> "", y_true |-> None, y_pred |-> None, le |-> None]

NoFrames == [c \in Callers |-> IdleFrame]

\* ClusteringMetric(y_true, y_pred, X, decimal, raise_error, biggest_value,
\* smallest_value): an absent sentinel becomes +inf / -inf
ClusteringMetric(y_true, y_pred, X, decimal, raise_error, biggest_value, smallest_value) ==
    /\ self_y_true = y_true
    /\ self_y_pred = y_pred
    /\ self_X = X
    /\ self_decimal = decimal
    /\ self_le = None
    /\ self_raise_error = raise_error
    /\ self_biggest_value = IF biggest_value = None THEN Inf(1) ELSE Get(biggest_value)
    /\ self_smallest_value = IF smallest_value = None THEN Inf(-1) ELSE Get(smallest_value)
    /\ call = NoCall
    /\ counts = << >>
    /\ result = NoResult
    /\ last = NoLast
    /\ frames = NoFrames

\* the caller has the outcome; the instance is ready for the next call
Idle == result = NoResult

Return ==
    /\ ~Idle
    /\ call' = NoCall
    /\ counts' = << >>
    /\ result' = NoResult
    /\ UNCHANGED << context, self_le, last, frames >>

(***************************************************************************)
(* Calls of external and of internal metrics.                              *)
(***************************************************************************)
\* self.<metric>(...) after the inputs are resolved: the score of an external metric
ExternalScore(metric, y_true, y_pred, decimal) ==
    CASE metric = "rand_score" -> rand_score(y_true, y_pred, decimal)
      [] metric = "fowlkes_mallows_score" -> fowlkes_mallows_score(y_true, y_pred, decimal)
      [] metric = "tau_score" -> tau_score(y_true, y_pred, decimal)
      [] metric = "precision_score" -> precision_score(y_true, y_pred, decimal)
      [] metric = "recall_score" -> recall_score(y_true, y_pred, decimal)
      [] metric = "jaccard_score" -> jaccard_score(y_true, y_pred, decimal)
      [] metric = "rogers_tanimoto_score" -> rogers_tanimoto_score(y_true, y_pred, decimal)
      [] metric = "hubert_gamma_score" -> hubert_gamma_score(y_true, y_pred, decimal)
      [] metric = "phi_score" -> phi_score(y_true, y_pred, decimal)
      [] metric = "purity_score" -> purity_score(y_true, y_pred, decimal)
      [] metric = "entropy_score" -> entropy_score(y_true, y_pred, decimal)
      [] metric = "homogeneity_score" -> homogeneity_score(y_true, y_pred, decimal)
      [] metric = "completeness_score" -> completeness_score(y_true, y_pred, decimal)
      [] metric = "v_measure_score" -> v_measure_score(y_true, y_pred, decimal)
      [] OTHER -> other_external_score(y_true, y_pred, decimal)

\* the pair counters an external metric enumerates on the way
ExternalCounts(metric, y_true, y_pred) ==
    CASE metric = "rand_score" -> rand_counts(y_true, y_pred)
      [] metric = "fowlkes_mallows_score" -> fowlkes_mallows_counts(y_true, y_pred)
      [] metric = "tau_score" -> tau_counts(y_true, y_pred)
      [] metric \in {"precision_score", "recall_score", "jaccard_score",
                     "rogers_tanimoto_score"} ->
             CmCounts(y_true, y_pred)
      [] OTHER -> NoCounts(y_true, y_pred)

\* the index of an internal metric
InternalIndex(metric, X, y_pred, decimal) ==
    CASE metric = "log_ss_ratio_index" -> log_ss_ratio_index(X, y_pred, decimal)
      [] metric = "baker_hubert_gamma_index" -> baker_hubert_gamma_index(X, y_pred, decimal)
      [] metric = "g_plus_index" -> g_plus_index(X, y_pred, decimal)
      [] OTHER -> other_internal_index(X, y_pred, decimal)

\* the counters an internal metric fills on the way
InternalCounts(metric, X, y_pred) ==
    CASE metric = "baker_hubert_gamma_index" ->
             << baker_hubert_counts(pair_distances(X), pair_binary_vector(y_pred)) >>
      [] metric = "g_plus_index" -> << g_plus_counts(X) >>
      [] OTHER -> << >>

External(metric, V, D) ==
    /\ Idle
    /\ \E y_true \in Opt(V), y_pred \in Opt(V), decimal \in D :
        /\ SameLength(y_true, y_pred)
        /\ LET p == get_processed_external_data(y_true, y_pred, decimal)
           IN  /\ self_le' = p.le
               /\ result' = IF p.ok THEN ExternalScore(metric, p.y_true, p.y_pred, p.decimal)
                            ELSE Raised("ValueError")
               /\ counts' = IF p.ok THEN ExternalCounts(metric, p.y_true, p.y_pred) ELSE << >>
        /\ call' = [metric |-> metric, y_true |-> y_true, y_pred |-> y_pred,
                    X |-> None, decimal |-> decimal]
        /\ UNCHANGED << context, last, frames >>

Internal(metric, M, V, D) ==
    /\ Idle
    /\ \E X \in Opt(M), y_pred \in Opt(V), decimal \in D :
        /\ LET cx == check_X(X)
               p == get_processed_internal_data(y_pred, decimal)
           IN  /\ (cx.ok /\ p.ok) => Len(cx.X) = Len(p.y_pred)
               /\ self_le' = IF cx.ok THEN p.le ELSE self_le
               /\ result' = IF cx.ok /\ p.ok
                            THEN InternalIndex(metric, cx.X, p.y_pred, p.decimal)
                            ELSE Raised("ValueError")
               /\ counts' = IF cx.ok /\ p.ok THEN InternalCounts(metric, cx.X, p.y_pred)
                            ELSE << >>
        /\ call' = [metric |-> metric, y_true |-> None, y_pred |-> y_pred,
                    X |-> X, decimal |-> decimal]
        /\ UNCHANGED << context, last, frames >>

RandScore(V, D) == External("rand_score", V, D)

FowlkesMallowsScore(V, D) == External("fowlkes_mallows_score", V, D)

TauScore(V, D) == External("tau_score", V, D)

PrecisionScore(V, D) == External("precision_score", V, D)

RecallScore(V, D) == External("recall_score", V, D)

JaccardScore(V, D) == External("jaccard_score", V, D)

RogersTanimotoScore(V, D) == External("rogers_tanimoto_score", V, D)

HubertGammaScore(V, D) == External("hubert_gamma_score", V, D)

PhiScore(V, D) == External("phi_score", V, D)

PurityScore(V, D) == External("purity_score", V, D)

EntropyScore(V, D) == External("entropy_score", V, D)

HomogeneityScore(V, D) == External("homogeneity_score", V, D)

CompletenessScore(V, D) == External("completeness_score", V, D)

VMeasureScore(V, D) == External("v_measure_score", V, D)

OtherExternalScore(V, D) == \E metric \in OtherExternal : External(metric, V, D)

LogSsRatioIndex(M, V, D) == Internal("log_ss_ratio_index", M, V, D)

BakerHubertGammaIndex(M, V, D) == Internal("baker_hubert_gamma_index", M, V, D)

GPlusIndex(M, V, D) == Internal("g_plus_index", M, V, D)

OtherInternalIndex(M, V, D) == \E metric \in OtherInternal : Internal(metric, M, V, D)

(***************************************************************************)
(* Spec: every clustering metric on an instance constructed with or        *)
(* without each input, called with or without each argument.               *)
(***************************************************************************)
Init ==
    \E y_true \in {None, Some(ShortTrue)}, y_pred \in {None, Some(ShortPred)},
       X \in {None, Some(ShortX)}, raise_error \in BOOLEAN,
       smallest_value \in {None, Some(CustomSmallest)} :
        ClusteringMetric(y_true, y_pred, X, 2, raise_error, None, smallest_value)

Next ==
    \/ RandScore(ShortVectors, OptDecimals)
    \/ FowlkesMallowsScore(ShortVectors, OptDecimals)
    \/ TauScore(ShortVectors, OptDecimals)
    \/ PrecisionScore(ShortVectors, OptDecimals)
    \/ RecallScore(ShortVectors, OptDecimals)
    \/ JaccardScore(ShortVectors, OptDecimals)
    \/ RogersTanimotoScore(ShortVectors, OptDecimals)
    \/ HubertGammaScore(ShortVectors, OptDecimals)
    \/ PhiScore(ShortVectors, OptDecimals)
    \/ PurityScore(ShortVectors, OptDecimals)
    \/ EntropyScore(ShortVectors, OptDecimals)
    \/ HomogeneityScore(ShortVectors, OptDecimals)
    \/ CompletenessScore(ShortVectors, OptDecimals)
    \/ VMeasureScore(ShortVectors, OptDecimals)
    \/ OtherExternalScore({ShortTrue}, {None})
    \/ LogSsRatioIndex(ShortMatrices, ShortVectors, OptDecimals)
    \/ BakerHubertGammaIndex(ShortMatrices, ShortVectors, OptDecimals)
    \/ GPlusIndex(ShortMatrices, ShortVectors, OptDecimals)
    \/ OtherInternalIndex({ShortX}, {ShortPred}, {None})
    \/ Return

Spec == Init /\ [][Next]_vars

(***************************************************************************)
(* SpecDegenerate: the metrics that special-case a single predicted        *)
(* cluster, on every label vector up to MaxN samples.                      *)
(***************************************************************************)
InitDegenerate ==
    \E raise_error \in BOOLEAN :
        ClusteringMetric(None, None, None, 2, raise_error, None, Some(CustomSmallest))

NextDegenerate ==
    \/ HubertGammaScore(LabelVectors, {None})
    \/ PhiScore(LabelVectors, {None})
    \/ LogSsRatioIndex(FeatureMatrices, LabelVectors, {None})
    \/ Return

SpecDegenerate == InitDegenerate /\ [][NextDegenerate]_vars

(***************************************************************************)
(* SpecPairs: the pair-counting and class-counting external metrics on     *)
(* every pair of label vectors up to MaxN samples.                         *)
(***************************************************************************)
InitPairs ==
    \E decimal \in Decimals :
        ClusteringMetric(Some(InstanceTrue), Some(InstancePred), None, decimal,
                         FALSE, None, None)

NextPairs ==
    \/ RandScore(LabelVectors, {None})
    \/ FowlkesMallowsScore(LabelVectors, {None})
    \/ TauScore(LabelVectors, {None})
    \/ PrecisionScore(LabelVectors, {None})
    \/ RecallScore(LabelVectors, {None})
    \/ JaccardScore(LabelVectors, {None})
    \/ PurityScore(LabelVectors, {None})
    \/ EntropyScore(LabelVectors, {None})
    \/ Return

SpecPairs == InitPairs /\ [][NextPairs]_vars

(***************************************************************************)
(* SpecContingency: the metrics that are a quotient of entries of the      *)
(* contingency tuple, on every pair of label vectors up to MaxN samples,   *)
(* with the rounding precision of the instance or of the call.             *)
(***************************************************************************)
InitContingency ==
    \E decimal \in Decimals :
        ClusteringMetric(Some(InstanceTrue), Some(InstancePred), None, decimal,
                         FALSE, None, None)

NextContingency ==
    \/ PrecisionScore(LabelVectors, {None})
    \/ RecallScore(LabelVectors, {None})
    \/ JaccardScore(LabelVectors, {None})
    \/ RogersTanimotoScore(LabelVectors, OptDecimals)
    \/ Return

SpecContingency == InitContingency /\ [][NextContingency]_vars

(***************************************************************************)
(* SpecClasses: the metrics that count predicted labels inside each true   *)
(* class, on every pair of label vectors up to MaxN samples; the rounding  *)
(* precision may be 0 digits.                                              *)
(***************************************************************************)
ClassDecimals == {0, 2}

InitClasses ==
    \E decimal \in ClassDecimals :
        ClusteringMetric(Some(InstanceTrue), Some(InstancePred), None, decimal,
                         FALSE, None, None)

NextClasses ==
    \/ PurityScore(LabelVectors, {None, Some(1)})
    \/ EntropyScore(LabelVectors, {None})
    \/ HomogeneityScore(LabelVectors, {None})
    \/ CompletenessScore(LabelVectors, {None})
    \/ VMeasureScore(LabelVectors, {None})
    \/ Return

SpecClasses == InitClasses /\ [][NextClasses]_vars

(***************************************************************************)
(* SpecDistances: the two indices that compare within-cluster with         *)
(* between-cluster distances, on every feature matrix of up to MaxN rows   *)
(* over three collinear points and every label vector of that length.      *)
(***************************************************************************)
DistancePoints == { << 0, 0 >>, << 3, 4 >>, << 6, 8 >> }

DistanceMatrices == UNION { [1..n -> DistancePoints] : n \in 1..MaxN }

InitDistances ==
    \E decimal \in Decimals :
        ClusteringMetric(None, Some(InstancePred), Some(InstanceX), decimal,
                         FALSE, None, None)

NextDistances ==
    \/ BakerHubertGammaIndex(DistanceMatrices, LabelVectors, {None})
    \/ GPlusIndex(DistanceMatrices, LabelVectors, {None})
    \/ Return

SpecDistances == InitDistances /\ [][NextDistances]_vars

(***************************************************************************)
(* SpecRepeat: sequences of calls on one instance; the caller may keep a   *)
(* call and its outcome to compare a later call with.                      *)
(***************************************************************************)
RepeatVectors == { << 3, 7 >>, << 7, 7 >> }

\* as Return, and the caller keeps the call and what it gave
ReturnRemembering ==
    /\ ~Idle
    /\ last' = [call |-> call, result |-> result, counts |-> counts]
    /\ call' = NoCall
    /\ counts' = << >>
    /\ result' = NoResult
    /\ UNCHANGED << context, self_le, frames >>

InitRepeat ==
    \E raise_error \in BOOLEAN :
        ClusteringMetric(Some(ShortTrue), Some(ShortPred), Some(ShortX), 2, raise_error,
                         None, None)

NextRepeat ==
    \/ RandScore(RepeatVectors, {None})
    \/ HubertGammaScore(RepeatVectors, {None})
    \/ LogSsRatioIndex({ShortX}, RepeatVectors, {None})
    \/ Return
    \/ ReturnRemembering

SpecRepeat == InitRepeat /\ [][NextRepeat]_vars

(***************************************************************************)
(* SpecInterleaved: two callers run get_processed_external_data and        *)
(* get_processed_internal_data on one instance.  Each method first stores  *)
(* the fitted encoder in self.le and then, in its return statement, reads  *)
(* self.le again; another caller may run between the two.                  *)
(***************************************************************************)
InterleavedVectors == { << 3, 3 >>, << 3, 7 >>, << 7, 7 >> }

\* y_true, y_pred, self.le = du.format_external_clustering_data(...), or the
\* raise of ValueError when a label vector is missing
StoreExternalEncoder(c, V) ==
    /\ frames[c].pc = "idle"
    /\ \E y_true \in Opt(V), y_pred \in Opt(V) :
        LET p == get_processed_external_data(y_true, y_pred, None)
        IN  /\ self_le' = p.le
            /\ frames' = [frames EXCEPT ![c] =
                   [pc |-> IF p.ok THEN "stored" ELSE "raised",
                    method |-> "get_processed_external_data",
                    y_true |-> y_true, y_pred |-> y_pred, le |-> None]]
    /\ UNCHANGED << context, call, counts, result, last >>

\* y_pred, self.le = du.format_internal_clustering_data(...), or the raise
StoreInternalEncoder(c, V) ==
    /\ frames[c].pc = "idle"
    /\ \E y_pred \in Opt(V) :
        LET p == get_processed_internal_data(y_pred, None)
        IN  /\ self_le' = p.le
            /\ frames' = [frames EXCEPT ![c] =
                   [pc |-> IF p.ok THEN "stored" ELSE "raised",
                    method |-> "get_processed_internal_data",
                    y_true |-> None, y_pred |-> y_pred, le |-> None]]
    /\ UNCHANGED << context, call, counts, result, last >>

\* return ..., self.le, decimal: the encoder handed to the caller is the one
\* the attribute holds now
ReturnEncoder(c) ==
    /\ frames[c].pc = "stored"
    /\ frames' = [frames EXCEPT ![c].pc = "returned", ![c].le = self_le]
    /\ UNCHANGED << context, self_le, call, counts, result, last >>

\* the caller is done with what it got
Leave(c) ==
    /\ frames[c].pc \in {"returned", "raised"}
    /\ frames' = [frames EXCEPT ![c] = IdleFrame]
    /\ UNCHANGED << context, self_le, call, counts, result, last >>

InitInterleaved ==
    \E y_true \in {None, Some(ShortTrue)} :
        ClusteringMetric(y_true, Some(ShortPred), None, 2, FALSE, None, None)

NextInterleaved ==
    \E c \in Callers :
        \/ StoreExternalEncoder(c, InterleavedVectors)
        \/ StoreInternalEncoder(c, InterleavedVectors)
        \/ ReturnEncoder(c)
        \/ Leave(c)

SpecInterleaved == InitInterleaved /\ [][NextInterleaved]_vars

(***************************************************************************)
(* RegressionMetric.  An input array is [ndim, data]: data is a sequence   *)
(* of integers (ndim = 1) or a sequence of rows (ndim = 2).  Preprocessed  *)
(* data is a sequence of columns of numbers.                               *)
(***************************************************************************)
MaxLen == 3

Vals == {0, 1, 3}

Array1(v) == [ndim |-> 1, data |-> v]

Array2(rows) == [ndim |-> 2, data |-> rows]

\* every 1-D array of 1..MaxLen samples
Arrays1 == { Array1(v) : v \in UNION { [1..n -> Vals] : n \in 1..MaxLen } }

\* every matrix of non-zero values with two rows and M columns
Matrices(M) == { Array2(m) : m \in [1..2 -> [1..M -> {1, 3}]] }

Arrays == Arrays1 \cup Matrices(1) \cup Matrices(2)

\* a 1-D array of halves: the entries are data[i] / 2
Halves(v) == [ndim |-> 1, data |-> v, den |-> 2]

\* y_true = [3, -0.5, 2, 7] and y_pred = [2.5, 0.0, 2, 8]
ScenarioTrue == Halves(<<6, -1, 4, 14>>)

ScenarioPred == Halves(<<5, 0, 4, 16>>)

ScenarioArrays == { ScenarioTrue, ScenarioPred }

SameShape(a, b) ==
    /\ a.ndim = b.ndim
    /\ Len(a.data) = Len(b.data)
    /\ a.ndim = 2 => Len(a.data[1]) = Len(b.data[1])

\* a prediction one sample longer than the truth it is compared with
LongerPred == Array1(<< 1, 3, 1, 3, 1 >>)

RegressionTrue == Array1(<< 1, 3, 3 >>)

RegressionPred == Array1(<< 1, 0, 3 >>)

RawValues == [mode |-> "raw_values", weights |-> << >>]

Weights(w) == [mode |-> "weights", weights |-> w]

MultiOutputs == { RawValues, Weights(<< 1, 3 >>) }

\* element-wise numpy arithmetic on columns of numbers
np_subtract(a, b) == [i \in DOMAIN a |-> RatSub(a[i], b[i])]

np_add(a, b) == [i \in DOMAIN a |-> RatAdd(a[i], b[i])]

np_abs(a) == [i \in DOMAIN a |-> RatAbs(a[i])]

np_square(a) == [i \in DOMAIN a |-> RatMul(a[i], a[i])]

np_divide(a, b) == [i \in DOMAIN a |-> NpDiv(a[i], b[i])]

np_times(c, a) == [i \in DOMAIN a |-> RatMul(c, a[i])]

np_minus(a, c) == [i \in DOMAIN a |-> RatSub(a[i], c)]

RECURSIVE SumFirst(_, _)
SumFirst(a, n) == IF n = 0 THEN IntNum(0) ELSE RatAdd(SumFirst(a, n - 1), a[n])

np_sum(a) == SumFirst(a, Len(a))

np_mean(a) == NpDiv(np_sum(a), IntNum(Len(a)))

\* format_regression_data_type: numeric columns, and whether there is one
format_regression_data_type(y_true, y_pred) ==
    LET column(arr, k) ==
            [i \in 1..Len(arr.data) |->
                Rat(IF arr.ndim = 1 THEN arr.data[i] ELSE arr.data[i][k],
                    IF "den" \in DOMAIN arr THEN arr.den ELSE 1)]
        M == IF y_true.ndim = 1 THEN 1 ELSE Len(y_true.data[1])
    IN  [one_dim |-> M = 1,
         y_true |-> [k \in 1..M |-> column(y_true, k)],
         y_pred |-> [k \in 1..M |-> column(y_pred, k)]]

\* the rows of one column that clean / positive_only keep
kept_rows(t, p, clean, positive_only) ==
    SelectSeq([i \in DOMAIN t |-> i],
              LAMBDA i : /\ positive_only => (t[i].n > 0 /\ p[i].n > 0)
                         /\ clean => p[i].n # 0)

\* Evaluator.get_preprocessed_data
get_preprocessed_data(y_true, y_pred, clean, decimal, positive_only) ==
    LET dec == IF decimal = None THEN self_decimal ELSE Get(decimal)
        bad(e) == [ok |-> FALSE, exc |-> e, one_dim |-> TRUE,
                   y_true |-> << >>, y_pred |-> << >>, decimal |-> dec]
        t == IF y_true # None /\ y_pred # None THEN y_true ELSE self_y_true
        p == IF y_true # None /\ y_pred # None THEN y_pred ELSE self_y_pred
        f == format_regression_data_type(Get(t), Get(p))
        rows(k) == kept_rows(f.y_true[k], f.y_pred[k], clean, positive_only)
        pick(col, idx) == [j \in DOMAIN idx |-> col[idx[j]]]
    IN  IF t = None \/ p = None THEN bad("ValueError")
        ELSE IF Len(Get(t).data) # Len(Get(p).data) THEN bad("ShapeError")
        ELSE IF dec < 0 THEN bad("ValueError")
        ELSE [ok |-> TRUE, exc |-> "", one_dim |-> f.one_dim,
              y_true |-> [k \in DOMAIN f.y_true |-> pick(f.y_true[k], rows(k))],
              y_pred |-> [k \in DOMAIN f.y_pred |-> pick(f.y_pred[k], rows(k))],
              decimal |-> dec]

\* np.dot(result, weights) / sum(weights)
RECURSIVE DotFirst(_, _, _)
DotFirst(result_, w, n) ==
    IF n = 0 THEN IntNum(0)
    ELSE RatAdd(DotFirst(result_, w, n - 1), RatMul(IntNum(w[n]), result_[n]))

\* Evaluator.get_multi_output_result: the rounded per-column vector, or the
\* rounded weighted mean of the columns
get_multi_output_result(result_, multi_output, decimal) ==
    IF multi_output.mode = "raw_values"
    THEN Returned([k \in DOMAIN result_ |-> NpRound(result_[k], decimal)])
    ELSE LET w == multi_output.weights
         IN  IF \E k \in DOMAIN result_ : result_[k].k \notin {"rat", "nan", "inf"}
             THEN Returned([k |-> "round_weighted", terms |-> result_, weights |-> w,
                            decimal |-> decimal])
             ELSE Returned(NpRound(NpDiv(DotFirst(result_, w, Len(w)),
                                         IntNum(SumOver(DOMAIN w, w))), decimal))

(***************************************************************************)
(* Regression metrics: the one_dim branch on the single column, the other  *)
(* branch on every column (axis = 0).                                      *)
(***************************************************************************)
\* a faulty variant: the error is taken as y_pred + y_true
mean_absolute_error_plus(y_true, y_pred, one_dim, decimal, multi_output) ==
    IF one_dim
    THEN Returned(NpRound(NpDiv(np_sum(np_abs(np_add(y_pred[1], y_true[1]))),
                                IntNum(Len(y_true[1]))), decimal))
    ELSE get_multi_output_result(
             [k \in DOMAIN y_true |-> NpDiv(np_sum(np_abs(np_add(y_pred[k], y_true[k]))),
                                              IntNum(Len(y_true[k])))],
             multi_output, decimal)

mean_absolute_error(y_true, y_pred, one_dim, decimal, multi_output) ==
    IF one_dim
    THEN Returned(NpRound(NpDiv(np_sum(np_abs(np_subtract(y_pred[1], y_true[1]))),
                                IntNum(Len(y_true[1]))), decimal))
    ELSE get_multi_output_result(
             [k \in DOMAIN y_true |-> NpDiv(np_sum(np_abs(np_subtract(y_pred[k], y_true[k]))),
                                              IntNum(Len(y_true[k])))],
             multi_output, decimal)

mean_squared_error(y_true, y_pred, one_dim, decimal, multi_output) ==
    IF one_dim
    THEN Returned(NpRound(NpDiv(np_sum(np_square(np_subtract(y_pred[1], y_true[1]))),
                                IntNum(Len(y_true[1]))), decimal))
    ELSE get_multi_output_result(
             [k \in DOMAIN y_true |-> NpDiv(np_sum(np_square(np_subtract(y_pred[k], y_true[k]))),
                                              IntNum(Len(y_true[k])))],
             multi_output, decimal)

\* a faulty variant: the square root is left out
root_mean_squared_error_unrooted(y_true, y_pred, one_dim, decimal, multi_output) ==
    IF one_dim
    THEN Returned(NpRound(NpDiv(np_sum(np_square(np_subtract(y_pred[1], y_true[1]))),
                                IntNum(Len(y_true[1]))), decimal))
    ELSE get_multi_output_result(
             [k \in DOMAIN y_true |->
                 NpDiv(np_sum(np_square(np_subtract(y_pred[k], y_true[k]))),
                       IntNum(Len(y_true[k])))],
             multi_output, decimal)

root_mean_squared_error(y_true, y_pred, one_dim, decimal, multi_output) ==
    IF one_dim
    THEN Returned(NpRound(NpSqrt(NpDiv(np_sum(np_square(np_subtract(y_pred[1], y_true[1]))),
                                       IntNum(Len(y_true[1])))), decimal))
    ELSE get_multi_output_result(
             [k \in DOMAIN y_true |->
                 NpSqrt(NpDiv(np_sum(np_square(np_subtract(y_pred[k], y_true[k]))),
                              IntNum(Len(y_true[k]))))],
             multi_output, decimal)

mean_absolute_percentage_error(y_true, y_pred, one_dim, decimal, multi_output) ==
    IF one_dim
    THEN Returned(NpRound(np_mean(np_divide(np_abs(np_subtract(y_true[1], y_pred[1])),
                                            np_abs(y_true[1]))), decimal))
    ELSE get_multi_output_result(
             [k \in DOMAIN y_true |->
                 np_mean(np_divide(np_abs(np_subtract(y_true[k], y_pred[k])), np_abs(y_true[k])))],
             multi_output, decimal)

symmetric_mean_absolute_percentage_error(y_true, y_pred, one_dim, decimal, multi_output) ==
    IF one_dim
    THEN Returned(NpRound(np_mean(np_divide(
             np_times(IntNum(2), np_abs(np_subtract(y_pred[1], y_true[1]))),
             np_add(np_abs(y_true[1]), np_abs(y_pred[1])))), decimal))
    ELSE get_multi_output_result(
             [k \in DOMAIN y_true |-> np_mean(np_divide(
                 np_times(IntNum(2), np_abs(np_subtract(y_pred[k], y_true[k]))),
                 np_add(np_abs(y_true[k]), np_abs(y_pred[k]))))],
             multi_output, decimal)

\* a faulty variant: the error ratio itself, not one minus it
nash_sutcliffe_efficiency_ratio(y_true, y_pred, one_dim, decimal, multi_output) ==
    IF one_dim
    THEN Returned(NpRound(
             NpDiv(np_sum(np_square(np_subtract(y_true[1], y_pred[1]))),
                   np_sum(np_square(np_minus(y_true[1], np_mean(y_true[1]))))), decimal))
    ELSE get_multi_output_result(
             [k \in DOMAIN y_true |->
                 NpDiv(np_sum(np_square(np_subtract(y_true[k], y_pred[k]))),
                       np_sum(np_square(np_minus(y_true[k], np_mean(y_true[k])))))],
             multi_output, decimal)

nash_sutcliffe_efficiency(y_true, y_pred, one_dim, decimal, multi_output) ==
    IF one_dim
    THEN Returned(NpRound(RatSub(IntNum(1),
             NpDiv(np_sum(np_square(np_subtract(y_true[1], y_pred[1]))),
                   np_sum(np_square(np_minus(y_true[1], np_mean(y_true[1])))))), decimal))
    ELSE get_multi_output_result(
             [k \in DOMAIN y_true |-> RatSub(IntNum(1),
                 NpDiv(np_sum(np_square(np_subtract(y_true[k], y_pred[k]))),
                       np_sum(np_square(np_minus(y_true[k], np_mean(y_true[k]))))))],
             multi_output, decimal)

willmott_index(y_true, y_pred, one_dim, decimal, multi_output) ==
    IF one_dim
    THEN LET m1 == np_mean(y_true[1])
         IN  Returned(NpRound(RatSub(IntNum(1),
                 NpDiv(np_sum(np_square(np_subtract(y_pred[1], y_true[1]))),
                       np_sum(np_square(np_add(np_abs(np_minus(y_pred[1], m1)),
                                               np_abs(np_minus(y_true[1], m1))))))), decimal))
    ELSE LET m1 == [k \in DOMAIN y_true |-> np_mean(y_true[k])]
         IN  get_multi_output_result(
                 [k \in DOMAIN y_true |-> RatSub(IntNum(1),
                     NpDiv(np_sum(np_square(np_subtract(y_pred[k], y_true[k]))),
                           np_sum(np_square(np_add(np_abs(np_minus(y_pred[k], m1[k])),
                                                   np_abs(np_minus(y_true[k], m1[k])))))))],
                 multi_output, decimal)

coefficient_of_determination(y_true, y_pred, one_dim, decimal, multi_output) ==
    IF one_dim
    THEN Returned(NpRound(RatSub(IntNum(1),
             NpDiv(np_sum(np_square(np_subtract(y_true[1], y_pred[1]))),
                   np_sum(np_square(np_minus(y_true[1], np_mean(y_true[1])))))), decimal))
    ELSE get_multi_output_result(
             [k \in DOMAIN y_true |-> RatSub(IntNum(1),
                 NpDiv(np_sum(np_square(np_subtract(y_true[k], y_pred[k]))),
                       np_sum(np_square(np_minus(y_true[k], np_mean(y_true[k]))))))],
             multi_output, decimal)

\* x * y; a factor that is kept as the terms it is computed from gives a
\* product kept the same way
NpMul(x, y) ==
    IF x.k \in {"rat", "nan", "inf"} /\ y.k \in {"rat", "nan", "inf"} THEN RatMul(x, y)
    ELSE [k |-> "product", x |-> x, y |-> y]

np_multiply(a, b) == [i \in DOMAIN a |-> NpMul(a[i], b[i])]

\* x / (np.sqrt(a) * np.sqrt(b)) for a rational x and rationals a, b >= 0:
\* NaN or +-inf when a * b = 0, exact when a * b is a square, else a signed
\* square root
NpDivSqrtSqrt(x, a, b) ==
    LET ab == RatMul(a, b)
        s == NpSqrt(ab)
    IN  IF IsRat(s) THEN NpDiv(x, s)
        ELSE IF x.n = 0 THEN IntNum(0)
        ELSE LET q == Rat(x.n * x.n * ab.d, x.d * x.d * ab.n)
             IN  [k |-> "sqrt", n |-> Sign(x.n) * q.n, d |-> q.d]

\* the Pearson quotient of one column: sum((t - m1)(p - m2)) over
\* sqrt(sum((t - m1)^2)) * sqrt(sum((p - m2)^2))
pearson_column(t, p) ==
    LET m1 == np_mean(t)
        m2 == np_mean(p)
    IN  NpDivSqrtSqrt(np_sum(np_multiply(np_minus(t, m1), np_minus(p, m2))),
                      np_sum(np_square(np_minus(t, m1))),
                      np_sum(np_square(np_minus(p, m2))))

\* the one_dim branch reads the attribute np.m1, which numpy does not have:
\* the expression raises AttributeError before anything is returned
pearson_correlation_coefficient(y_true, y_pred, one_dim, decimal, multi_output) ==
    IF one_dim
    THEN Raised("AttributeError")
    ELSE get_multi_output_result([k \in DOMAIN y_true |-> pearson_column(y_true[k], y_pred[k])],
                                 multi_output, decimal)

\* 1 - np.sqrt((r - 1)^2 + (beta - 1)^2 + (gamma - 1)^2) of one column, kept as
\* the terms it is computed from: r is the value the Pearson call returned,
\* beta the ratio of the means, gamma the ratio of the coefficients of
\* variation (np.std(y) / np.mean(y))
kge_column(r, t, p) ==
    LET m1 == np_mean(t)
        m2 == np_mean(p)
        n == IntNum(Len(t))
    IN  [k |-> "kge", r |-> r, beta |-> NpDiv(m2, m1),
         cv_pred |-> << NpSqrt(NpDiv(np_sum(np_square(np_minus(p, m2))), n)), m2 >>,
         cv_true |-> << NpSqrt(NpDiv(np_sum(np_square(np_minus(t, m1))), n)), m1 >>]

\* r comes from self.pearson_correlation_coefficient on the preprocessed
\* arrays, already rounded (and already averaged when weights are given)
kling_gupta_efficiency(y_true, y_pred, one_dim, decimal, multi_output) ==
    LET r == pearson_correlation_coefficient(y_true, y_pred, one_dim, decimal, multi_output)
    IN  IF r.kind # "value" THEN r
        ELSE IF one_dim
        THEN Returned(NpRound(kge_column(Get(r.val), y_true[1], y_pred[1]), decimal))
        ELSE get_multi_output_result(
                 [k \in DOMAIN y_true |->
                     kge_column(IF multi_output.mode = "raw_values" THEN Get(r.val)[k]
                                ELSE Get(r.val), y_true[k], y_pred[k])],
                 multi_output, decimal)

\* np.where(np.logical_and(div >= lo, div <= hi), 1, 0): NaN and inf compare
\* false on one side at least
np_where_between(div, lo, hi) ==
    [i \in DOMAIN div |->
        IF IsRat(div[i]) /\ ~RatLess(div[i], lo) /\ ~RatLess(hi, div[i])
        THEN IntNum(1) ELSE IntNum(0)]

\* a faulty variant: the interval is open
a10_index_open(y_true, y_pred, one_dim, decimal, multi_output) ==
    LET open(div) == [i \in DOMAIN div |->
            IF RatLess(Rat(9, 10), div[i]) /\ RatLess(div[i], Rat(11, 10))
            THEN IntNum(1) ELSE IntNum(0)]
        hits(k) == open(np_divide(y_true[k], y_pred[k]))
    IN  IF one_dim
        THEN Returned(NpRound(np_mean(hits(1)), decimal))
        ELSE get_multi_output_result([k \in DOMAIN y_true |-> np_mean(hits(k))],
                                     multi_output, decimal)

a10_index(y_true, y_pred, one_dim, decimal, multi_output) ==
    LET hits(k) == np_where_between(np_divide(y_true[k], y_pred[k]), Rat(9, 10), Rat(11, 10))
    IN  IF one_dim
        THEN Returned(NpRound(np_mean(hits(1)), decimal))
        ELSE get_multi_output_result([k \in DOMAIN y_true |-> np_mean(hits(k))],
                                     multi_output, decimal)

a20_index(y_true, y_pred, one_dim, decimal, multi_output) ==
    LET hits(k) == np_where_between(np_divide(y_true[k], y_pred[k]), Rat(8, 10), Rat(12, 10))
    IN  IF one_dim
        THEN Returned(NpRound(np_mean(hits(1)), decimal))
        ELSE get_multi_output_result([k \in DOMAIN y_true |-> np_mean(hits(k))],
                                     multi_output, decimal)

\* a10_index and a20_index, whose clean argument is True by default
index_call(metric, y_true, y_pred, multi_output, decimal) ==
    LET d == get_preprocessed_data(y_true, y_pred, TRUE, decimal, FALSE)
    IN  IF ~d.ok THEN Raised(d.exc)
        ELSE IF metric = "a10_index"
             THEN a10_index(d.y_true, d.y_pred, d.one_dim, d.decimal, multi_output)
             ELSE a20_index(d.y_true, d.y_pred, d.one_dim, d.decimal, multi_output)

(***************************************************************************)
(* The histogram-based metrics: cross_entropy, kullback_leibler_divergence *)
(* and jensen_shannon_divergence bin y_true and y_pred and compare the two *)
(* binned vectors with self.entropy.                                       *)
(***************************************************************************)
\* len(np.unique(a))
np_unique_len(a) == Cardinality(Range(a))

np_min(a) == CHOOSE m \in Range(a) : \A x \in Range(a) : ~RatLess(x, m)

np_max(a) == CHOOSE m \in Range(a) : \A x \in Range(a) : ~RatLess(m, x)

\* the bin edges of np.histogram(a, bins): bins + 1 points from min to max
histogram_bin_edges(a, bins) ==
    [j \in 1..(bins + 1) |->
        RatAdd(np_min(a), RatMul(Rat(j - 1, bins), RatSub(np_max(a), np_min(a))))]

\* the counts of np.histogram(a, bins=edges): bin b holds edges[b] <= x <
\* edges[b + 1], the last bin its right edge too
histogram_counts(a, edges) ==
    [b \in 1..(Len(edges) - 1) |->
        Cardinality({ i \in DOMAIN a :
            /\ ~RatLess(a[i], edges[b])
            /\ \/ RatLess(a[i], edges[b + 1])
               \/ b = Len(edges) - 1 /\ a[i] = edges[b + 1] })]

\* f_true and f_pred of one column with K >= 2 distinct true values
binned_vectors(y_true, y_pred) ==
    LET bins == np_unique_len(y_true) - 1
        edges == histogram_bin_edges(y_true, bins)
        f_true == histogram_counts(y_true, edges)
        lo == IF RatLess(np_min(y_pred), np_min(y_true)) THEN np_min(y_pred) ELSE np_min(y_true)
        hi == IF RatLess(np_max(y_true), np_max(y_pred)) THEN np_max(y_pred) ELSE np_max(y_true)
        intervals == [edges EXCEPT ![1] = lo, ![bins + 1] = hi]
        f_pred == histogram_counts(y_pred, intervals)
    IN  [f_true |-> [b \in 1..bins |-> Rat(f_true[b], Len(f_true))],
         f_pred |-> [b \in 1..bins |-> Rat(f_pred[b], Len(y_pred))]]

\* a faulty variant: the prediction is binned over the range of y_true only
binned_vectors_true_range(y_true, y_pred) ==
    LET bins == np_unique_len(y_true) - 1
        edges == histogram_bin_edges(y_true, bins)
        f_true == histogram_counts(y_true, edges)
        f_pred == histogram_counts(y_pred, edges)
    IN  [f_true |-> [b \in 1..bins |-> Rat(f_true[b], Len(f_true))],
         f_pred |-> [b \in 1..bins |-> Rat(f_pred[b], Len(y_pred))]]

\* self.entropy(y_true, y_pred, ..., clean=True, positive_only=True) on two
\* binned vectors: the bins where both are positive are kept, and the value
\* is np.round(-sum(y_true * log(y_pred)), decimal); the logarithms are kept
\* as a term unless every one of them is log(1)
entropy(y_true, y_pred, decimal) ==
    LET kept == SelectSeq([b \in DOMAIN y_true |-> b],
                          LAMBDA b : y_true[b].n > 0 /\ y_pred[b].n > 0)
    IN  IF \A j \in DOMAIN kept : y_pred[kept[j]] = IntNum(1) THEN IntNum(0)
        ELSE [k |-> "round_entropy", y_true |-> [j \in DOMAIN kept |-> y_true[kept[j]]],
              y_pred |-> [j \in DOMAIN kept |-> y_pred[kept[j]]], decimal |-> decimal]

\* x - y, 0.5 * x + 0.5 * y and np.round(x, decimal) of values that may be terms
NpMinus(x, y) ==
    IF IsRat(x) /\ IsRat(y) THEN RatSub(x, y) ELSE [k |-> "minus", x |-> x, y |-> y]

NpHalfSum(x, y) ==
    IF IsRat(x) /\ IsRat(y) THEN RatMul(Rat(1, 2), RatAdd(x, y))
    ELSE [k |-> "half_sum", x |-> x, y |-> y]

NpRoundTerm(x, decimal) ==
    IF IsRat(x) THEN NpRound(x, decimal) ELSE [k |-> "round", x |-> x, decimal |-> decimal]

\* the score of one column from its binned vectors
binned_score(metric, f, decimal) ==
    CASE metric = "cross_entropy" -> entropy(f.f_true, f.f_pred, decimal)
      [] metric = "kullback_leibler_divergence" ->
             NpMinus(entropy(f.f_true, f.f_pred, decimal), entropy(f.f_true, f.f_true, decimal))
      [] metric = "jensen_shannon_divergence" ->
             LET m == [b \in DOMAIN f.f_true |->
                          RatMul(Rat(1, 2), RatAdd(f.f_true[b], f.f_pred[b]))]
                 temp1 == NpMinus(entropy(f.f_true, m, decimal),
                                  entropy(f.f_true, f.f_true, decimal))
                 temp2 == NpMinus(entropy(f.f_pred, m, decimal),
                                  entropy(f.f_pred, f.f_pred, decimal))
             IN  NpHalfSum(temp1, temp2)

\* cross_entropy, kullback_leibler_divergence, jensen_shannon_divergence
\* (clean=True, positive_only=True): the outcome and, per column, the binned
\* vectors; np.histogram raises ValueError when the number of bins is not
\* positive
binned_call(metric, y_true, y_pred, multi_output, decimal) ==
    LET d == get_preprocessed_data(y_true, y_pred, TRUE, decimal, TRUE)
    IN  IF ~d.ok THEN [result |-> Raised(d.exc), vectors |-> << >>]
        ELSE IF \E k \in DOMAIN d.y_true : np_unique_len(d.y_true[k]) < 2
             THEN [result |-> Raised("ValueError"), vectors |-> << >>]
        ELSE LET f == [k \in DOMAIN d.y_true |-> binned_vectors(d.y_true[k], d.y_pred[k])]
             IN  [result |->
                      IF d.one_dim
                      THEN Returned(NpRoundTerm(binned_score(metric, f[1], d.decimal), d.decimal))
                      ELSE get_multi_output_result(
                               [k \in DOMAIN f |-> binned_score(metric, f[k], d.decimal)],
                               multi_output, d.decimal),
                  vectors |-> f]

\* RegressionMetric.__init__: the state after construction
RegressionMetric(y_true, y_pred, decimal) ==
    /\ self_y_true = y_true
    /\ self_y_pred = y_pred
    /\ self_decimal = decimal
    /\ self_X = None
    /\ self_raise_error = FALSE
    /\ self_biggest_value = Inf(1)
    /\ self_smallest_value = Inf(-1)
    /\ self_le = None
    /\ call = NoCall
    /\ counts = << >>
    /\ result = NoResult
    /\ last = NoLast
    /\ frames = NoFrames

\* self.<metric>(...) after the inputs are preprocessed
RegressionScore(metric, y_true, y_pred, one_dim, decimal, multi_output) ==
    CASE metric = "mean_absolute_error" ->
             mean_absolute_error(y_true, y_pred, one_dim, decimal, multi_output)
      [] metric = "mean_squared_error" ->
             mean_squared_error(y_true, y_pred, one_dim, decimal, multi_output)
      [] metric = "root_mean_squared_error" ->
             root_mean_squared_error(y_true, y_pred, one_dim, decimal, multi_output)
      [] metric = "mean_absolute_percentage_error" ->
             mean_absolute_percentage_error(y_true, y_pred, one_dim, decimal, multi_output)
      [] metric = "symmetric_mean_absolute_percentage_error" ->
             symmetric_mean_absolute_percentage_error(y_true, y_pred, one_dim, decimal,
                                                      multi_output)
      [] metric = "nash_sutcliffe_efficiency" ->
             nash_sutcliffe_efficiency(y_true, y_pred, one_dim, decimal, multi_output)
      [] metric = "willmott_index" ->
             willmott_index(y_true, y_pred, one_dim, decimal, multi_output)
      [] metric = "coefficient_of_determination" ->
             coefficient_of_determination(y_true, y_pred, one_dim, decimal, multi_output)
      [] metric = "pearson_correlation_coefficient" ->
             pearson_correlation_coefficient(y_true, y_pred, one_dim, decimal, multi_output)
      [] metric = "kling_gupta_efficiency" ->
             kling_gupta_efficiency(y_true, y_pred, one_dim, decimal, multi_output)

\* the default of the clean argument in the metric's signature
DefaultClean(metric) ==
    metric \in { "mean_absolute_percentage_error", "symmetric_mean_absolute_percentage_error",
                 "a10_index", "a20_index" }

\* self.<metric>(y_true, y_pred, multi_output, decimal) of a metric that
\* preprocesses its arguments and then computes
metric_call(metric, y_true, y_pred, multi_output, decimal) ==
    LET d == get_preprocessed_data(y_true, y_pred, DefaultClean(metric), decimal, FALSE)
    IN  IF d.ok
        THEN RegressionScore(metric, d.y_true, d.y_pred, d.one_dim, d.decimal, multi_output)
        ELSE Raised(d.exc)

\* np.round(x, decimal) with the caller's own decimal argument: numpy takes
\* no None there (TypeError); x is one number or one number per column
np_round_result(x, scalar, decimal) ==
    IF decimal = None THEN Raised("TypeError")
    ELSE IF scalar THEN Returned(NpRound(x, Get(decimal)))
    ELSE Returned([k \in DOMAIN x |-> NpRound(x[k], Get(decimal))])

\* whether a metric's value on these arguments is one number
scalar_result(y_true, y_pred, multi_output) ==
    get_preprocessed_data(y_true, y_pred, FALSE, None, FALSE).one_dim
        \/ multi_output.mode # "raw_values"

\* self.pearson_correlation_coefficient(y_true, y_pred, multi_output, decimal,
\* clean, positive_only) and self.willmott_index(...) called from another metric
pearson_call(y_true, y_pred, multi_output, decimal) ==
    LET d == get_preprocessed_data(y_true, y_pred, FALSE, decimal, FALSE)
    IN  IF d.ok
        THEN pearson_correlation_coefficient(d.y_true, d.y_pred, d.one_dim, d.decimal,
                                             multi_output)
        ELSE Raised(d.exc)

willmott_call(y_true, y_pred, multi_output, decimal) ==
    LET d == get_preprocessed_data(y_true, y_pred, FALSE, decimal, FALSE)
    IN  IF d.ok
        THEN willmott_index(d.y_true, d.y_pred, d.one_dim, d.decimal, multi_output)
        ELSE Raised(d.exc)

\* the square of the value the Pearson call returned, rounded again
pearson_correlation_coefficient_square(y_true, y_pred, multi_output, decimal) ==
    LET result_ == pearson_call(y_true, y_pred, multi_output, decimal)
        scalar == scalar_result(y_true, y_pred, multi_output)
    IN  IF result_.kind # "value" THEN result_
        ELSE np_round_result(IF scalar THEN NpMul(Get(result_.val), Get(result_.val))
                             ELSE np_multiply(Get(result_.val), Get(result_.val)),
                             scalar, decimal)

\* the product of the values the Pearson and the Willmott calls returned,
\* rounded again
confidence_index(y_true, y_pred, multi_output, decimal) ==
    LET r == pearson_call(y_true, y_pred, multi_output, decimal)
        d == willmott_call(y_true, y_pred, multi_output, decimal)
        scalar == scalar_result(y_true, y_pred, multi_output)
    IN  IF r.kind # "value" THEN r
        ELSE IF d.kind # "value" THEN d
        ELSE np_round_result(IF scalar THEN NpMul(Get(r.val), Get(d.val))
                             ELSE np_multiply(Get(r.val), Get(d.val)),
                             scalar, decimal)

\* self.<metric>(...) with the arguments as the caller passed them
regression_call(metric, y_true, y_pred, multi_output, decimal) ==
    CASE metric = "pearson_correlation_coefficient_square" ->
             pearson_correlation_coefficient_square(y_true, y_pred, multi_output, decimal)
      [] metric = "confidence_index" ->
             confidence_index(y_true, y_pred, multi_output, decimal)
      [] metric \in {"a10_index", "a20_index"} ->
             index_call(metric, y_true, y_pred, multi_output, decimal)
      [] OTHER -> metric_call(metric, y_true, y_pred, multi_output, decimal)

\* one call of a regression metric: both arrays passed, or both left to the
\* instance; clean is the metric's default, positive_only is False
Regression(metric, A, D) ==
    /\ Idle
    /\ \E y_true \in Opt(A), multi_output \in MultiOutputs, decimal \in D :
        \E y_pred \in IF y_true = None THEN {None}
                      ELSE { Some(b) : b \in { a \in A : SameShape(a, Get(y_true)) } }
                               \cup (IF Get(y_true).ndim = 1 THEN {Some(LongerPred)} ELSE {}) :
            /\ (y_true = None \/ Get(y_true).ndim = 1 \/ Len(Get(y_true).data[1]) = 1)
                   => multi_output = RawValues
            /\ result' = regression_call(metric, y_true, y_pred, multi_output, decimal)
            /\ call' = [metric |-> metric, y_true |-> y_true, y_pred |-> y_pred, X |-> None,
                        decimal |-> decimal, multi_output |-> multi_output,
                        clean |-> DefaultClean(metric), positive_only |-> FALSE]
            /\ counts' = << >>
            /\ UNCHANGED << context, self_le, last, frames >>

MeanAbsoluteError(A, D) == Regression("mean_absolute_error", A, D)

MeanSquaredError(A, D) == Regression("mean_squared_error", A, D)

RootMeanSquaredError(A, D) == Regression("root_mean_squared_error", A, D)

MeanAbsolutePercentageError(A, D) == Regression("mean_absolute_percentage_error", A, D)

SymmetricMeanAbsolutePercentageError(A, D) ==
    Regression("symmetric_mean_absolute_percentage_error", A, D)

NashSutcliffeEfficiency(A, D) == Regression("nash_sutcliffe_efficiency", A, D)

WillmottIndex(A, D) == Regression("willmott_index", A, D)

CoefficientOfDetermination(A, D) == Regression("coefficient_of_determination", A, D)

PearsonCorrelationCoefficient(A, D) == Regression("pearson_correlation_coefficient", A, D)

PearsonCorrelationCoefficientSquare(A, D) ==
    Regression("pearson_correlation_coefficient_square", A, D)

ConfidenceIndex(A, D) == Regression("confidence_index", A, D)

KlingGuptaEfficiency(A, D) == Regression("kling_gupta_efficiency", A, D)

\* the three error metrics on the float arrays, at three and four decimals
ScenarioErrors ==
    \E metric \in { "mean_absolute_error", "mean_squared_error", "root_mean_squared_error" } :
        Regression(metric, ScenarioArrays, {Some(3), Some(4)})

(***************************************************************************)
(* SpecRegression: the regression metrics on every pair of arrays of one   *)
(* shape, from an instance that holds arrays of its own or none.           *)
(***************************************************************************)
InitRegression ==
    \/ RegressionMetric(None, None, 2)
    \/ RegressionMetric(Some(RegressionTrue), Some(RegressionPred), 1)

NextRegression ==
    \/ MeanAbsoluteError(Arrays, {None, Some(2), Some(-1)})
    \/ ScenarioErrors
    \/ MeanSquaredError(Arrays, {None})
    \/ RootMeanSquaredError(Arrays, {None})
    \/ MeanAbsolutePercentageError(Arrays, {None})
    \/ SymmetricMeanAbsolutePercentageError(Arrays, {None})
    \/ NashSutcliffeEfficiency(Arrays, {None})
    \/ WillmottIndex(Arrays, {None})
    \/ CoefficientOfDetermination(Arrays, {None})
    \/ Return

SpecRegression == InitRegression /\ [][NextRegression]_vars

(***************************************************************************)
(* SpecCorrelation: the metrics built on the Pearson coefficient, on 1-D   *)
(* arrays, on two-row matrices and on three-row matrices whose columns     *)
(* correlate without being proportional.                                   *)
(***************************************************************************)
TallColumns == { <<0, 1, 3>>, <<0, 0, 1>>, <<1, 3, 3>>, <<3, 1, 0>> }

TallMatrices ==
    { Array2([i \in 1..3 |-> << c1[i], c2[i] >>]) : c1 \in TallColumns, c2 \in TallColumns }

CorrelationArrays == Arrays1 \cup Matrices(2) \cup TallMatrices

InitCorrelation ==
    \/ RegressionMetric(None, None, 2)
    \/ RegressionMetric(Some(RegressionTrue), Some(RegressionPred), 1)

NextCorrelation ==
    \/ PearsonCorrelationCoefficient(CorrelationArrays, {None, Some(1)})
    \/ PearsonCorrelationCoefficientSquare(CorrelationArrays, {None, Some(1), Some(2)})
    \/ ConfidenceIndex(CorrelationArrays, {None, Some(2)})
    \/ KlingGuptaEfficiency(CorrelationArrays, {None})
    \/ Return

SpecCorrelation == InitCorrelation /\ [][NextCorrelation]_vars

(***************************************************************************)
(* SpecIndices: a10_index and a20_index on arrays whose ratios fall on,    *)
(* inside and outside the two intervals, with zeros among the values.      *)
(***************************************************************************)
A10Index(A, D) == Regression("a10_index", A, D)

A20Index(A, D) == Regression("a20_index", A, D)

\* ratios 9/10, 10/9, 11/10, 10/11, ...
TenthVals == {0, 9, 10, 11}

\* ratios 4/5, 5/4, 6/5, 5/6, ...
FifthVals == {0, 4, 5, 6}

IndexArrays(V) ==
    { Array1(v) : v \in UNION { [1..n -> V] : n \in 1..MaxLen } }
        \cup { Array2(m) : m \in [1..2 -> [1..2 -> V \ {0}]] }

InitIndices ==
    \/ RegressionMetric(None, None, 2)
    \/ RegressionMetric(Some(Array1(<< 10, 10, 9 >>)), Some(Array1(<< 9, 10, 10 >>)), 1)

NextIndices ==
    \/ A10Index(IndexArrays(TenthVals), {None})
    \/ A20Index(IndexArrays(FifthVals), {None})
    \/ Return

SpecIndices == InitIndices /\ [][NextIndices]_vars

(***************************************************************************)
(* SpecBinned: the histogram-based metrics on arrays with up to MaxLen     *)
(* samples, zeros included, and on two-column matrices.  A call records    *)
(* the binned vectors of every column.                                     *)
(***************************************************************************)
BinnedNames == { "cross_entropy", "kullback_leibler_divergence", "jensen_shannon_divergence" }

Binned(metric, A, D) ==
    /\ Idle
    /\ \E y_true \in Opt(A), multi_output \in MultiOutputs, decimal \in D :
        \E y_pred \in IF y_true = None THEN {None}
                      ELSE { Some(b) : b \in { a \in A : SameShape(a, Get(y_true)) } } :
            /\ (y_true = None \/ Get(y_true).ndim = 1) => multi_output = RawValues
            /\ LET c == binned_call(metric, y_true, y_pred, multi_output, decimal)
               IN  result' = c.result /\ counts' = c.vectors
            /\ call' = [metric |-> metric, y_true |-> y_true, y_pred |-> y_pred, X |-> None,
                        decimal |-> decimal, multi_output |-> multi_output,
                        clean |-> TRUE, positive_only |-> TRUE]
            /\ UNCHANGED << context, self_le, last, frames >>

CrossEntropy(A, D) == Binned("cross_entropy", A, D)

KullbackLeiblerDivergence(A, D) == Binned("kullback_leibler_divergence", A, D)

JensenShannonDivergence(A, D) == Binned("jensen_shannon_divergence", A, D)

BinVals == {0, 1, 2, 4}

BinnedArrays ==
    { Array1(v) : v \in UNION { [1..n -> BinVals] : n \in 1..MaxLen } }
        \cup { Array2(m) : m \in [1..2 -> [1..2 -> {1, 2}]] }

InitBinned ==
    \/ RegressionMetric(None, None, 2)
    \/ RegressionMetric(Some(Array1(<< 1, 2, 4 >>)), Some(Array1(<< 1, 2, 4 >>)), 1)

NextBinned ==
    \/ CrossEntropy(BinnedArrays, {None})
    \/ KullbackLeiblerDivergence(BinnedArrays, {None})
    \/ JensenShannonDivergence(BinnedArrays, {None})
    \/ Return

SpecBinned == InitBinned /\ [][NextBinned]_vars

(***************************************************************************)
(* Batch invocation: get_metric_by_name, get_metrics_by_list_names and     *)
(* get_metrics_by_dict look a method up by name and call it with keyword   *)
(* arguments, or with none.                                                *)
(***************************************************************************)
MaxBatch == 2

\* the method an attribute name is bound to ("" when the instance has no such
\* attribute): the method names and the short-code aliases of the class body
getattr_self(metric_name) ==
    CASE metric_name \in {"MAE", "mae", "mean_absolute_error"} -> "mean_absolute_error"
      [] metric_name \in {"MSE", "mse", "mean_squared_error"} -> "mean_squared_error"
      [] metric_name \in {"RMSE", "rmse", "root_mean_squared_error"} -> "root_mean_squared_error"
      [] metric_name \in {"R", "r", "pearson_correlation_coefficient"} ->
             "pearson_correlation_coefficient"
      [] metric_name \in {"R2", "r2", "coefficient_of_determination"} ->
             "coefficient_of_determination"
      [] OTHER -> ""

\* obj() when paras is None, else obj(**paras) with paras = {"decimal": d}
call_obj(obj, paras) ==
    regression_call(obj, None, None, RawValues, IF paras = None THEN None ELSE Get(paras).decimal)

\* results[metric_name] = value
dict_set(results, metric_name, value) ==
    [x \in DOMAIN results \cup {metric_name} |->
        IF x = metric_name THEN value ELSE results[x]]

\* result[metric_name] = value; return result (value being what obj() or
\* obj(**paras) gave, or the exception it raised)
single_result(metric_name, value) ==
    IF value.kind # "value" THEN value
    ELSE Returned(dict_set(<< >>, metric_name, Get(value.val)))

get_metric_by_name(metric_name, paras) ==
    IF getattr_self(metric_name) = "" THEN Raised("AttributeError")
    ELSE single_result(metric_name, call_obj(getattr_self(metric_name), paras))

\* the for loop of get_metrics_by_list_names from position idx on, values[idx]
\* being what obj() or obj(**list_paras[idx]) gives there; the length check
\* sits inside the loop, after the attribute lookup, and ends the interpreter
\* with exit(0)
RECURSIVE list_names_loop(_, _, _, _, _)
list_names_loop(list_metric_names, list_paras, values, idx, results) ==
    IF idx > Len(list_metric_names) THEN Returned(results)
    ELSE IF getattr_self(list_metric_names[idx]) = "" THEN Raised("AttributeError")
    ELSE IF list_paras # None /\ Len(list_metric_names) # Len(Get(list_paras))
    THEN Raised("SystemExit")
    ELSE IF values[idx].kind # "value" THEN values[idx]
    ELSE list_names_loop(list_metric_names, list_paras, values, idx + 1,
                         dict_set(results, list_metric_names[idx], Get(values[idx].val)))

get_metrics_by_list_names(list_metric_names, list_paras) ==
    list_names_loop(list_metric_names, list_paras,
                    [idx \in DOMAIN list_metric_names |->
                        call_obj(getattr_self(list_metric_names[idx]),
                                 IF list_paras = None THEN None ELSE Get(list_paras)[idx])],
                    1, << >>)

\* a faulty variant: an unknown name is skipped and the mapping of the others
\* is returned
RECURSIVE dict_loop_skipping(_, _, _, _)
dict_loop_skipping(items, values, idx, results) ==
    IF idx > Len(items) THEN Returned(results)
    ELSE IF getattr_self(items[idx][1]) = ""
    THEN dict_loop_skipping(items, values, idx + 1, results)
    ELSE IF values[idx].kind # "value" THEN values[idx]
    ELSE dict_loop_skipping(items, values, idx + 1,
                            dict_set(results, items[idx][1], Get(values[idx].val)))

\* the for loop of get_metrics_by_dict over metrics_dict.items() from
\* position idx on, values[idx] being what obj() or obj(**paras_dict) gives
RECURSIVE dict_loop(_, _, _, _)
dict_loop(items, values, idx, results) ==
    IF idx > Len(items) THEN Returned(results)
    ELSE IF getattr_self(items[idx][1]) = "" THEN Raised("AttributeError")
    ELSE IF values[idx].kind # "value" THEN values[idx]
    ELSE dict_loop(items, values, idx + 1,
                   dict_set(results, items[idx][1], Get(values[idx].val)))

\* metrics_dict is given by its items, in insertion order
get_metrics_by_dict(items) ==
    dict_loop(items,
              [idx \in DOMAIN items |-> call_obj(getattr_self(items[idx][1]), items[idx][2])],
              1, << >>)

\* names a caller may pass: aliases, a method name, and names the class does
\* not have
BatchNames == { "MAE", "rmse", "R", "nope" }

BatchParas == { None, Some([decimal |-> Some(2)]) }

NameLists == UNION { [1..n -> BatchNames] : n \in 0..MaxBatch }

ParasLists == UNION { [1..n -> BatchParas] : n \in 0..MaxBatch }

\* the items of a dict: no key twice
ItemLists ==
    { items \in UNION { [1..n -> BatchNames \X BatchParas] : n \in 0..MaxBatch } :
        \A i, j \in DOMAIN items : items[i][1] = items[j][1] => i = j }

\* one batch call: the methods it calls write nothing on the instance
Batch(method, names, paras, outcome) ==
    /\ Idle
    /\ result' = outcome
    /\ call' = [metric |-> method, names |-> names, paras |-> paras]
    /\ counts' = << >>
    /\ UNCHANGED << context, self_le, last, frames >>

GetMetricByName ==
    \E metric_name \in BatchNames, paras \in BatchParas :
        Batch("get_metric_by_name", << metric_name >>, paras,
              get_metric_by_name(metric_name, paras))

GetMetricsByListNames ==
    \E list_metric_names \in NameLists, list_paras \in Opt(ParasLists) :
        Batch("get_metrics_by_list_names", list_metric_names, list_paras,
              get_metrics_by_list_names(list_metric_names, list_paras))

GetMetricsByDict ==
    \E items \in ItemLists :
        Batch("get_metrics_by_dict", [i \in DOMAIN items |-> items[i][1]],
              [i \in DOMAIN items |-> items[i][2]], get_metrics_by_dict(items))

InitBatch ==
    \/ RegressionMetric(None, None, 2)
    \/ RegressionMetric(Some(RegressionTrue), Some(RegressionPred), 1)
    \/ RegressionMetric(Some(Array2(<< <<1, 3>>, <<3, 1>> >>)),
                        Some(Array2(<< <<1, 1>>, <<3, 3>> >>)), 1)

NextBatch ==
    \/ GetMetricByName
    \/ GetMetricsByListNames
    \/ GetMetricsByDict
    \/ Return

SpecBatch == InitBatch /\ [][NextBatch]_vars

(***************************************************************************)
(* The metadata table of the clustering metrics and its query.             *)
(***************************************************************************)
Descriptor(type, range, best) == [type |-> type, range |-> range, best |-> best]

\* ClusteringMetric.SUPPORT
SUPPORT ==
       "BHI" :> Descriptor("min", "[0, +inf)", "0")
    @@ "XBI" :> Descriptor("min", "[0, +inf)", "0")
    @@ "DBI" :> Descriptor("min", "[0, +inf)", "0")
    @@ "BRI" :> Descriptor("min", "(-inf, +inf)", "no best")
    @@ "KDI" :> Descriptor("min", "(-inf, +inf)", "no best")
    @@ "DRI" :> Descriptor("max", "[0, +inf)", "no best")
    @@ "DI" :> Descriptor("max", "[0, +inf)", "no best")
    @@ "CHI" :> Descriptor("max", "[0, +inf)", "no best")
    @@ "LDRI" :> Descriptor("max", "(-inf, +inf)", "no best")
    @@ "LSRI" :> Descriptor("max", "(-inf, +inf)", "no best")
    @@ "SI" :> Descriptor("max", "[-1, +1]", "1")
    @@ "SSEI" :> Descriptor("min", "[0, +inf)", "0")
    @@ "DHI" :> Descriptor("min", "[0, +inf)", "0")
    @@ "BI" :> Descriptor("min", "[0, +inf)", "0")
    @@ "RSI" :> Descriptor("max", "(-inf, +1]", "1")
    @@ "DBCVI" :> Descriptor("min", "[0, 1]", "0")
    @@ "HI" :> Descriptor("min", "[0, +inf)", "0")
    @@ "MIS" :> Descriptor("max", "[0, +inf)", "no best")
    @@ "NMIS" :> Descriptor("max", "[0, 1]", "1")
    @@ "RaS" :> Descriptor("max", "[0, 1]", "1")
    @@ "FMS" :> Descriptor("max", "[0, 1]", "1")
    @@ "HS" :> Descriptor("max", "[0, 1]", "1")
    @@ "CS" :> Descriptor("max", "[0, 1]", "1")
    @@ "VMS" :> Descriptor("max", "[0, 1]", "1")
    @@ "PrS" :> Descriptor("max", "[0, 1]", "1")
    @@ "ReS" :> Descriptor("max", "[0, 1]", "1")
    @@ "FmS" :> Descriptor("max", "[0, 1]", "1")
    @@ "CDS" :> Descriptor("max", "[0, 1]", "1")
    @@ "HGS" :> Descriptor("max", "[-1, 1]", "1")
    @@ "JS" :> Descriptor("max", "[0, 1]", "1")
    @@ "KS" :> Descriptor("max", "[0, 1]", "1")
    @@ "MNS" :> Descriptor("max", "(-inf, +inf)", "no best")
    @@ "PhS" :> Descriptor("max", "(-inf, +inf)", "no best")
    @@ "RTS" :> Descriptor("max", "[0, 1]", "1")
    @@ "RRS" :> Descriptor("max", "[0, 1]", "1")
    @@ "SS1S" :> Descriptor("max", "[0, 1]", "1")
    @@ "SS2S" :> Descriptor("max", "[0, 1]", "1")
    @@ "PuS" :> Descriptor("max", "[0, 1]", "1")
    @@ "ES" :> Descriptor("min", "[0, 1]", "0")
    @@ "TS" :> Descriptor("max", "[-1, +1]", "1")

\* the short codes bound in the class body, each to the method it names
Aliases ==
       "BHI" :> "ball_hall_index"
    @@ "XBI" :> "xie_beni_index"
    @@ "DBI" :> "davies_bouldin_index"
    @@ "BRI" :> "banfeld_raftery_index"
    @@ "KDI" :> "ksq_detw_index"
    @@ "DRI" :> "det_ratio_index"
    @@ "DI" :> "dunn_index"
    @@ "CHI" :> "calinski_harabasz_index"
    @@ "LDRI" :> "log_det_ratio_index"
    @@ "LSRI" :> "log_ss_ratio_index"
    @@ "SI" :> "silhouette_index"
    @@ "SSEI" :> "sum_squared_error_index"
    @@ "DHI" :> "duda_hart_index"
    @@ "BI" :> "beale_index"
    @@ "RSI" :> "r_squared_index"
    @@ "DBCVI" :> "density_based_clustering_validation_index"
    @@ "HI" :> "hartigan_index"
    @@ "BHGI" :> "baker_hubert_gamma_index"
    @@ "GPI" :> "g_plus_index"
    @@ "MIS" :> "mutual_info_score"
    @@ "NMIS" :> "normalized_mutual_info_score"
    @@ "RaS" :> "rand_score"
    @@ "FMS" :> "fowlkes_mallows_score"
    @@ "HS" :> "homogeneity_score"
    @@ "CS" :> "completeness_score"
    @@ "VMS" :> "v_measure_score"
    @@ "PrS" :> "precision_score"
    @@ "ReS" :> "recall_score"
    @@ "FmS" :> "f_measure_score"
    @@ "CDS" :> "czekanowski_dice_score"
    @@ "HGS" :> "hubert_gamma_score"
    @@ "JS" :> "jaccard_score"
    @@ "KS" :> "kulczynski_score"
    @@ "MNS" :> "mc_nemar_score"
    @@ "PhS" :> "phi_score"
    @@ "RTS" :> "rogers_tanimoto_score"
    @@ "RRS" :> "russel_rao_score"
    @@ "SS1S" :> "sokal_sneath1_score"
    @@ "SS2S" :> "sokal_sneath2_score"
    @@ "PuS" :> "purity_score"
    @@ "ES" :> "entropy_score"
    @@ "TS" :> "tau_score"

\* ClusteringMetric.get_support (verbose only prints)
get_support(name) ==
    IF name = "all" THEN Returned(SUPPORT)
    ELSE IF name \notin DOMAIN SUPPORT THEN Raised("ValueError")
    ELSE Returned(SUPPORT[name])

\* names a caller may ask about: every short code, "all", a method's full
\* name, a code in another case, and a name of nothing
SupportNames == DOMAIN Aliases \cup { "all", "rand_score", "ras", "nope" }

\* the static method reads the class table only
GetSupport ==
    /\ Idle
    /\ \E name \in SupportNames, verbose \in BOOLEAN :
        /\ result' = get_support(name)
        /\ call' = [metric |-> "get_support", name |-> name, verbose |-> verbose]
    /\ counts' = << >>
    /\ UNCHANGED << context, self_le, last, frames >>

InitSupport ==
    \E raise_error \in BOOLEAN :
        ClusteringMetric(None, None, None, 2, raise_error, None, None)

NextSupport ==
    \/ GetSupport
    \/ Return

SpecSupport == InitSupport /\ [][NextSupport]_vars

(***************************************************************************)
(* What the last call worked on, for the properties below.                 *)
(***************************************************************************)
ExternalNames == { "rand_score", "fowlkes_mallows_score", "tau_score", "precision_score",
                   "recall_score", "jaccard_score", "hubert_gamma_score", "phi_score",
                   "purity_score", "entropy_score", "rogers_tanimoto_score",
                   "homogeneity_score", "completeness_score", "v_measure_score" }
                     \cup OtherExternal

InternalNames == { "log_ss_ratio_index", "baker_hubert_gamma_index", "g_plus_index" } \cup OtherInternal

\* the last call was given, or found on the instance, both label vectors
HasLabels ==
    IF call.y_pred = None THEN self_y_true # None /\ self_y_pred # None
    ELSE call.y_true # None

\* the label vectors the last external call scored (under HasLabels)
UsedTrue == IF call.y_pred = None THEN Get(self_y_true) ELSE Get(call.y_true)

UsedPred == IF call.y_pred = None THEN Get(self_y_pred) ELSE Get(call.y_pred)

UsedDecimal == IF call.decimal = None THEN self_decimal ELSE Get(call.decimal)

Called(metric) == call.metric = metric /\ HasLabels

SingleCluster(v) == \A i, j \in DOMAIN v : v[i] = v[j]

SamePartition(a, b) == \A i, j \in DOMAIN a : (a[i] = a[j]) <=> (b[i] = b[j])

NumPairs(v) == (Len(v) * (Len(v) - 1)) \div 2

\* the outcome of the metric on the same label vectors with their roles exchanged
Swapped(metric) ==
    ExternalScore(metric, LabelEncode(UsedPred), LabelEncode(UsedTrue), UsedDecimal)

C2_PhiLogSsSingleCluster ==
    /\ (Called("phi_score") /\ SingleCluster(UsedPred)) =>
           result = IF self_raise_error THEN Raised("ValueError")
                    ELSE Returned(self_smallest_value)
    /\ (call.metric = "log_ss_ratio_index" /\ call.X # None /\ call.y_pred # None
            /\ SingleCluster(Get(call.y_pred))) =>
           result = IF self_raise_error THEN Raised("ValueError")
                    ELSE Returned(self_smallest_value)

C2_Witness ==
    /\ call.metric = "log_ss_ratio_index"
    /\ call.X # None /\ call.y_pred # None
    /\ SingleCluster(Get(call.y_pred))
    /\ Len(Get(call.y_pred)) = 3
    /\ ~self_raise_error
    /\ result = Returned(CustomSmallest)

(***************************************************************************)
(* C3: a clustering metric whose required input is absent from both the    *)
(* call and the instance raises ValueError and computes nothing: y_true or *)
(* y_pred for an external metric, y_pred or X for an internal one.         *)
(***************************************************************************)
C3_MissingInputRaises ==
    /\ (call.metric \in ExternalNames
            /\ (\/ call.y_true = None /\ self_y_true = None
                \/ call.y_pred = None /\ self_y_pred = None)) =>
           result = Raised("ValueError") /\ counts = << >>
    /\ (call.metric \in InternalNames
            /\ (\/ call.y_pred = None /\ self_y_pred = None
                \/ call.X = None /\ self_X = None)) =>
           result = Raised("ValueError")

C3_Witness ==
    /\ call.metric = "rand_score"
    /\ call.y_true = None /\ self_y_true = None
    /\ call.y_pred # None /\ self_y_pred # None
    /\ result = Raised("ValueError")

(***************************************************************************)
(* C4: for N >= 2 samples the pair counts yy, yn, ny, nn of the            *)
(* contingency tuple are non-negative and sum to N(N-1)/2, and the         *)
(* enumerations of rand_score (a, b), fowlkes_mallows_score (TP, FP, FN)   *)
(* and tau_score (concordant, discordant) count the same four classes.     *)
(***************************************************************************)
C4_PairCountsPartition ==
    (~Idle /\ HasLabels /\ Len(UsedTrue) >= 2) =>
        LET cm == CmCounts(LabelEncode(UsedTrue), LabelEncode(UsedPred))
            yy == cm[1]
            yn == cm[2]
            ny == cm[3]
            nn == cm[4]
        IN  /\ call.metric \in {"precision_score", "recall_score", "jaccard_score"} =>
                   /\ counts = cm
                   /\ \A i \in 1..4 : counts[i] >= 0
                   /\ counts[1] + counts[2] + counts[3] + counts[4] = NumPairs(UsedTrue)
            /\ call.metric = "rand_score" =>
                   /\ counts = << yy, nn >>
                   /\ counts[1] + counts[2] + yn + ny = NumPairs(UsedTrue)
            /\ call.metric = "fowlkes_mallows_score" =>
                   /\ counts = << yy, ny, yn >>
                   /\ counts[1] + counts[2] + counts[3] + nn = NumPairs(UsedTrue)
            /\ call.metric = "tau_score" =>
                   /\ counts = << yy + nn, yn + ny >>
                   /\ counts[1] + counts[2] = NumPairs(UsedTrue)

C4_Witness ==
    /\ call.metric = "tau_score"
    /\ HasLabels
    /\ Len(UsedTrue) = 4
    /\ \A i \in 1..4 : CmCounts(UsedTrue, UsedPred)[i] > 0
    /\ counts[1] + counts[2] = 6

(***************************************************************************)
(* C5: rand_score and fowlkes_mallows_score give the same outcome when     *)
(* y_true and y_pred are exchanged.                                        *)
(***************************************************************************)
C5_RandFowlkesMallowsSymmetric ==
    /\ Called("rand_score") => result = Swapped("rand_score")
    /\ Called("fowlkes_mallows_score") => result = Swapped("fowlkes_mallows_score")

C5_Witness ==
    /\ Called("fowlkes_mallows_score")
    /\ counts[1] > 0
    /\ counts[2] # counts[3]
    /\ result.kind = "value"
    /\ IsRat(Get(result.val))
    /\ result = Swapped("fowlkes_mallows_score")

(***************************************************************************)
(* C6: precision_score(y_true, y_pred) equals recall_score(y_pred, y_true) *)
(* and recall_score(y_true, y_pred) equals precision_score(y_pred, y_true).*)
(***************************************************************************)
C6_PrecisionRecallDual ==
    /\ Called("precision_score") => result = Swapped("recall_score")
    /\ Called("recall_score") => result = Swapped("precision_score")

C6_Witness ==
    /\ Called("precision_score")
    /\ counts[1] > 0
    /\ counts[2] # counts[3]
    /\ IsRat(Get(result.val))
    /\ result = Swapped("recall_score")
    /\ result # Swapped("precision_score")

(***************************************************************************)
(* C7 (as stated): jaccard_score is not symmetric: for some pair of label  *)
(* vectors, exchanging the two arguments changes the result.               *)
(***************************************************************************)
C7_AsStated ==
    \E a \in LabelVectors, b \in LabelVectors :
        /\ Len(a) = Len(b)
        /\ jaccard_score(LabelEncode(a), LabelEncode(b), self_decimal)
               # jaccard_score(LabelEncode(b), LabelEncode(a), self_decimal)

(***************************************************************************)
(* C7 (amended): jaccard_score is symmetric: it gives the same outcome     *)
(* when y_true and y_pred are exchanged, for all label vectors.            *)
(***************************************************************************)
C7_JaccardSymmetric ==
    Called("jaccard_score") => result = Swapped("jaccard_score")

C7_Witness ==
    /\ Called("jaccard_score")
    /\ counts[1] > 0
    /\ counts[2] # counts[3]
    /\ counts[4] > 0
    /\ IsRat(Get(result.val))
    /\ result = Swapped("jaccard_score")

RegressionNames == { "a10_index", "a20_index", "pearson_correlation_coefficient", "pearson_correlation_coefficient_square",
                     "confidence_index", "kling_gupta_efficiency",
                     "mean_absolute_error", "mean_squared_error", "root_mean_squared_error",
                     "mean_absolute_percentage_error",
                     "symmetric_mean_absolute_percentage_error",
                     "nash_sutcliffe_efficiency", "willmott_index",
                     "coefficient_of_determination" }

HasArrays ==
    /\ call.metric \in RegressionNames
    /\ call.y_true = None => (self_y_true # None /\ self_y_pred # None)

ScoredTrue == IF call.y_true = None THEN Get(self_y_true) ELSE Get(call.y_true)

ScoredPred == IF call.y_true = None THEN Get(self_y_pred) ELSE Get(call.y_pred)

NumColumns(a) == IF a.ndim = 1 THEN 1 ELSE Len(a.data[1])

Entries(a) ==
    IF a.ndim = 1 THEN Range(a.data)
    ELSE UNION { Range(a.data[i]) : i \in DOMAIN a.data }

\* every column of the array holds at least two different values
NonConstant(a) ==
    IF a.ndim = 1 THEN \E i, j \in DOMAIN a.data : a.data[i] # a.data[j]
    ELSE \A k \in 1..NumColumns(a) : \E i, j \in DOMAIN a.data : a.data[i][k] # a.data[j][k]

\* the score x for every column, as the last call's multi_output returns it
AllColumns(x) ==
    IF NumColumns(ScoredTrue) = 1 \/ call.multi_output.mode # "raw_values"
    THEN Returned(IntNum(x))
    ELSE Returned([k \in 1..NumColumns(ScoredTrue) |-> IntNum(x)])

(***************************************************************************)
(* C9: on identical arrays y_true == y_pred, mean_absolute_error,          *)
(* mean_squared_error and root_mean_squared_error return 0, and so do      *)
(* mean_absolute_percentage_error and                                      *)
(* symmetric_mean_absolute_percentage_error when no entry is zero; with    *)
(* several columns every column's score is 0.                              *)
(***************************************************************************)
C9_IdenticalArraysZeroError ==
    (HasArrays /\ ScoredTrue = ScoredPred /\ (call.decimal # None => Get(call.decimal) >= 0)) =>
        /\ call.metric \in { "mean_absolute_error", "mean_squared_error",
                             "root_mean_squared_error" } => result = AllColumns(0)
        /\ (call.metric \in { "mean_absolute_percentage_error",
                              "symmetric_mean_absolute_percentage_error" }
                /\ 0 \notin Entries(ScoredTrue)) => result = AllColumns(0)

C9_Witness ==
    /\ HasArrays
    /\ call.metric = "mean_absolute_percentage_error"
    /\ ScoredTrue = ScoredPred
    /\ NumColumns(ScoredTrue) = 2
    /\ Len(ScoredTrue.data) = 2
    /\ NonConstant(ScoredTrue)
    /\ call.multi_output = RawValues
    /\ result = Returned(<< IntNum(0), IntNum(0) >>)

(***************************************************************************)
(* C10: on identical non-constant arrays y_true == y_pred,                 *)
(* coefficient_of_determination, nash_sutcliffe_efficiency and             *)
(* willmott_index each return 1 (for every column).                        *)
(***************************************************************************)
C10_IdenticalArraysPerfectFit ==
    (HasArrays /\ ScoredTrue = ScoredPred /\ NonConstant(ScoredTrue)
        /\ call.metric \in { "coefficient_of_determination", "nash_sutcliffe_efficiency",
                             "willmott_index" }) =>
        result = AllColumns(1)

C10_Witness ==
    /\ HasArrays
    /\ call.metric = "willmott_index"
    /\ ScoredTrue = ScoredPred
    /\ NonConstant(ScoredTrue)
    /\ ScoredTrue.ndim = 1
    /\ Len(ScoredTrue.data) = 3
    /\ result = Returned(IntNum(1))

\* the last call was Pearson's coefficient or the Kling-Gupta efficiency on
\* identical non-constant 1-D arrays
IdenticalOneDim ==
    /\ HasArrays
    /\ call.metric \in { "pearson_correlation_coefficient", "kling_gupta_efficiency" }
    /\ ScoredTrue = ScoredPred
    /\ ScoredTrue.ndim = 1
    /\ NonConstant(ScoredTrue)

(***************************************************************************)
(* C11: on identical non-constant 1-D arrays y_true == y_pred,             *)
(* pearson_correlation_coefficient returns 1 and kling_gupta_efficiency    *)
(* returns 1: the call completes with a numeric result.                    *)
(***************************************************************************)
C11_AsStated == IdenticalOneDim => result = Returned(IntNum(1))

\* C11, what the code does: both calls end in AttributeError
C11_PearsonOneDimRaises == IdenticalOneDim => result = Raised("AttributeError")

C11_Witness ==
    /\ IdenticalOneDim
    /\ call.metric = "kling_gupta_efficiency"
    /\ ScoredTrue = Array1(<<1, 3, 3>>)
    /\ result = Raised("AttributeError")

\* the entries of a 1-D array as numbers
Values(a) ==
    [i \in DOMAIN a.data |-> Rat(a.data[i], IF "den" \in DOMAIN a THEN a.den ELSE 1)]

\* sum((y_pred[i] - y_true[i])^2) / N and sum(|y_pred[i] - y_true[i]|) / N of
\* the arrays the last call scored
MeanOfSquares ==
    LET t == Values(ScoredTrue)
        p == Values(ScoredPred)
    IN  NpDiv(RatSumOver(DOMAIN t, [i \in DOMAIN t |->
                  RatMul(RatSub(p[i], t[i]), RatSub(p[i], t[i]))]), IntNum(Len(t)))

MeanOfAbs ==
    LET t == Values(ScoredTrue)
        p == Values(ScoredPred)
    IN  NpDiv(RatSumOver(DOMAIN t, [i \in DOMAIN t |-> RatAbs(RatSub(p[i], t[i]))]),
              IntNum(Len(t)))

\* the last call scored two 1-D arrays of one length at a valid precision
ScoredOneDim ==
    /\ HasArrays
    /\ ScoredTrue.ndim = 1
    /\ Len(ScoredTrue.data) = Len(ScoredPred.data)
    /\ UsedDecimal >= 0

(***************************************************************************)
(* C12: mean_absolute_error returns sum(|y_pred - y_true|) / N,            *)
(* mean_squared_error returns sum((y_pred - y_true)^2) / N, and            *)
(* root_mean_squared_error returns the square root of that mean, each      *)
(* rounded to the call's precision; for y_true = [3, -0.5, 2, 7] and       *)
(* y_pred = [2.5, 0.0, 2, 8] they are 0.5, 0.375 and the root of 0.375     *)
(* (0.6124 at four decimals).                                              *)
(***************************************************************************)
C12_ErrorFormulas ==
    ScoredOneDim =>
        /\ call.metric = "mean_absolute_error" =>
               result = Returned(NpRound(MeanOfAbs, UsedDecimal))
        /\ call.metric = "mean_squared_error" =>
               result = Returned(NpRound(MeanOfSquares, UsedDecimal))
        /\ call.metric = "root_mean_squared_error" =>
               /\ result = Returned(NpRound(NpSqrt(MeanOfSquares), UsedDecimal))
               /\ (MeanOfSquares.n = 0 \/ NpSqrt(MeanOfSquares).k = "sqrt") =>
                      Rat(NpSqrt(MeanOfSquares).n, NpSqrt(MeanOfSquares).d) = MeanOfSquares
        /\ (ScoredTrue = ScenarioTrue /\ ScoredPred = ScenarioPred) =>
               /\ call.metric = "mean_absolute_error" => result = Returned(Rat(1, 2))
               /\ call.metric = "mean_squared_error" => result = Returned(Rat(3, 8))
               /\ (call.metric = "root_mean_squared_error" /\ UsedDecimal = 4) =>
                      result = Returned(Rat(6124, 10000))

C12_Witness ==
    /\ ScoredOneDim
    /\ call.metric = "root_mean_squared_error"
    /\ ScoredTrue = ScenarioTrue
    /\ ScoredPred = ScenarioPred
    /\ UsedDecimal = 4
    /\ result = Returned(Rat(6124, 10000))

\* column k of a 2-D array, as a 1-D array
ColumnArray(a, k) == Array1([i \in DOMAIN a.data |-> a.data[i][k]])

\* the last call's metric on column k of its arrays alone, passed as 1-D arrays
ColumnCall(k) ==
    regression_call(call.metric, Some(ColumnArray(ScoredTrue, k)),
                    Some(ColumnArray(ScoredPred, k)), RawValues, call.decimal)

\* the last call scored two N x M arrays, M > 1, with multi_output = "raw_values"
ScoredColumns ==
    /\ HasArrays
    /\ ScoredTrue.ndim = 2
    /\ NumColumns(ScoredTrue) > 1
    /\ SameShape(ScoredTrue, ScoredPred)
    /\ call.multi_output = RawValues

(***************************************************************************)
(* C13: for every regression metric and every N x M input (M > 1) with     *)
(* multi_output = "raw_values", the call returns a vector of M entries     *)
(* whose k-th entry is the metric on column k alone passed as 1-D arrays;  *)
(* the 1-D and the multi-column branch succeed on the same inputs.         *)
(***************************************************************************)
C13_AsStated ==
    ScoredColumns =>
        \A k \in 1..NumColumns(ScoredTrue) :
            /\ result.kind = "value" <=> ColumnCall(k).kind = "value"
            /\ result.kind = "value" =>
                   /\ Len(Get(result.val)) = NumColumns(ScoredTrue)
                   /\ Get(result.val)[k] = Get(ColumnCall(k).val)

\* C13, where it fails: the multi-column Pearson call returns a vector while
\* the same metric on one of the columns raises AttributeError
C13_Witness ==
    /\ ScoredColumns
    /\ call.metric = "pearson_correlation_coefficient"
    /\ ScoredTrue = ScoredPred
    /\ Len(ScoredTrue.data) = 3
    /\ result = Returned(<< IntNum(1), IntNum(1) >>)
    /\ ColumnCall(1) = Raised("AttributeError")

\* the exact Pearson quotient and Willmott index of column k of the arrays the
\* last call scored, before any rounding
ExactPearson(k) ==
    pearson_column(Values(ColumnArray(ScoredTrue, k)), Values(ColumnArray(ScoredPred, k)))

ExactWillmott(k) ==
    LET t == Values(ColumnArray(ScoredTrue, k))
        p == Values(ColumnArray(ScoredPred, k))
        m1 == np_mean(t)
    IN  RatSub(IntNum(1),
               NpDiv(np_sum(np_square(np_subtract(p, t))),
                     np_sum(np_square(np_add(np_abs(np_minus(p, m1)),
                                             np_abs(np_minus(t, m1)))))))

\* x * x and x * y for an exact x that may be a signed square root
ExactSquare(x) == IF x.k = "sqrt" THEN Rat(Abs(x.n), x.d) ELSE RatMul(x, x)

ExactProduct(x, y) ==
    IF x.k # "sqrt" THEN RatMul(x, y)
    ELSE IF ~IsRat(y) THEN RatMul(IntNum(Sign(x.n)), y)
    ELSE IF y.n = 0 THEN IntNum(0)
    ELSE LET q == Rat(Abs(x.n) * y.n * y.n, x.d * y.d * y.d)
         IN  IF IsSquare(q.n) /\ IsSquare(q.d)
             THEN Rat(Sign(x.n) * Sign(y.n) * ISqrt(q.n), ISqrt(q.d))
             ELSE [k |-> "sqrt", n |-> Sign(x.n) * Sign(y.n) * q.n, d |-> q.d]

(***************************************************************************)
(* C14: rounding to `decimal` digits happens exactly once, as the last     *)
(* step, also in the metrics composed from other metrics: per column,      *)
(* pearson_correlation_coefficient_square returns the exact r^2 rounded    *)
(* once and confidence_index the exact r * d rounded once.                 *)
(***************************************************************************)
C14_AsStated ==
    (ScoredColumns /\ call.decimal # None /\ Get(call.decimal) >= 0) =>
        /\ call.metric = "pearson_correlation_coefficient_square" =>
               result = Returned([k \in 1..NumColumns(ScoredTrue) |->
                            NpRound(ExactSquare(ExactPearson(k)), UsedDecimal)])
        /\ call.metric = "confidence_index" =>
               result = Returned([k \in 1..NumColumns(ScoredTrue) |->
                            NpRound(ExactProduct(ExactPearson(k), ExactWillmott(k)),
                                    UsedDecimal)])

\* C14, where it fails: r = 15 / sqrt(252) = 0.9449 is rounded to 0.9 before
\* it is squared, so the call returns 0.8 where r^2 = 0.8929 rounds to 0.9
C14_Witness ==
    /\ ScoredColumns
    /\ call.metric = "pearson_correlation_coefficient_square"
    /\ call.decimal = Some(1)
    /\ ColumnArray(ScoredTrue, 1) = Array1(<<0, 1, 3>>)
    /\ ColumnArray(ScoredPred, 1) = Array1(<<0, 0, 1>>)
    /\ NpRound(ExactSquare(ExactPearson(1)), 1) = Rat(9, 10)
    /\ result.kind = "value"
    /\ Get(result.val)[1] = Rat(8, 10)

(***************************************************************************)
(* What the last batch call was given.                                     *)
(***************************************************************************)
BatchMethods == { "get_metric_by_name", "get_metrics_by_list_names", "get_metrics_by_dict" }

\* the last call was get_metrics_by_list_names with a list_paras whose length
\* differs from that of list_metric_names
LengthsDiffer ==
    /\ call.metric = "get_metrics_by_list_names"
    /\ call.paras # None
    /\ Len(call.names) # Len(Get(call.paras))

\* the keyword arguments the last batch call holds for its idx-th name
ParasAt(idx) ==
    CASE call.metric = "get_metric_by_name" -> call.paras
      [] call.metric = "get_metrics_by_dict" -> call.paras[idx]
      [] OTHER -> IF call.paras = None THEN None ELSE Get(call.paras)[idx]

\* what the idx-th named metric gives when called on its own
MetricAt(idx) == call_obj(getattr_self(call.names[idx]), ParasAt(idx))

UnknownAt(idx) == getattr_self(call.names[idx]) = ""

(***************************************************************************)
(* C15: get_metrics_by_list_names fails, returning no mapping, whenever    *)
(* list_paras is given and its length differs from that of                 *)
(* list_metric_names, an empty list of names included; otherwise (the      *)
(* names known, the metrics succeeding) it returns a mapping with one      *)
(* entry per given name holding that metric's result.                      *)
(***************************************************************************)
C15_AsStated ==
    call.metric = "get_metrics_by_list_names" =>
        IF LengthsDiffer THEN result.kind = "error"
        ELSE (\A idx \in DOMAIN call.names : ~UnknownAt(idx) /\ MetricAt(idx).kind = "value") =>
                 /\ result.kind = "value"
                 /\ DOMAIN Get(result.val) = Range(call.names)
                 /\ \A idx \in DOMAIN call.names :
                        \E j \in DOMAIN call.names :
                            /\ call.names[j] = call.names[idx]
                            /\ Get(result.val)[call.names[idx]] = Get(MetricAt(j).val)

\* C15, what the code does: the length check sits inside the loop over the
\* names, so it fails only when there is a name to loop over
C15_MismatchFailsUnlessEmpty ==
    LengthsDiffer =>
        IF call.names = << >> THEN result = Returned(<< >>) ELSE result.kind = "error"

\* C15, where it fails: no names, one parameter dictionary, an empty mapping
C15_Witness ==
    /\ LengthsDiffer
    /\ call.names = << >>
    /\ Len(Get(call.paras)) = 1
    /\ result = Returned(<< >>)

(***************************************************************************)
(* C16: a batch call that names a metric the instance does not have never  *)
(* returns a mapping, partial or not: it ends with an error, and that      *)
(* error is the failed attribute lookup whenever the call gets as far as   *)
(* the unknown name (every metric named before it succeeds, and the        *)
(* length check of get_metrics_by_list_names does not end the call).       *)
(***************************************************************************)
C16_UnknownNameLookupError ==
    (call.metric \in BatchMethods /\ \E idx \in DOMAIN call.names : UnknownAt(idx)) =>
        /\ result.kind = "error"
        /\ \A u \in DOMAIN call.names :
               (/\ UnknownAt(u)
                /\ ~LengthsDiffer
                /\ \A j \in 1..(u - 1) : ~UnknownAt(j) /\ MetricAt(j).kind = "value")
                   => result = Raised("AttributeError")

C16_Witness ==
    /\ call.metric = "get_metrics_by_dict"
    /\ call.names = << "MAE", "nope" >>
    /\ MetricAt(1).kind = "value"
    /\ result = Raised("AttributeError")

(***************************************************************************)
(* C17: get_support(code) returns the descriptor {type, range, best} for   *)
(* every short code the class binds as an alias, raises ValueError for     *)
(* any other name except "all", which returns the whole table, and every   *)
(* key of SUPPORT is the short code of an existing metric method.          *)
(***************************************************************************)
C17_AsStated ==
    call.metric = "get_support" =>
        /\ call.name \in DOMAIN Aliases =>
               /\ result.kind = "value"
               /\ DOMAIN Get(result.val) = {"type", "range", "best"}
        /\ call.name = "all" => result = Returned(SUPPORT)
        /\ call.name \notin DOMAIN Aliases \cup {"all"} => result = Raised("ValueError")
        /\ \A key \in DOMAIN SUPPORT :
               key \in DOMAIN Aliases /\ Aliases[key] \in ExternalNames \cup InternalNames

\* C17, what the code does: the descriptor is returned for the keys of SUPPORT,
\* which are all the short codes but BHGI and GPI
C17_SupportKeysOnly ==
    call.metric = "get_support" =>
        /\ call.name \in DOMAIN SUPPORT =>
               /\ result = Returned(SUPPORT[call.name])
               /\ DOMAIN Get(result.val) = {"type", "range", "best"}
        /\ call.name = "all" => result = Returned(SUPPORT)
        /\ call.name \notin DOMAIN SUPPORT \cup {"all"} => result = Raised("ValueError")
        /\ DOMAIN Aliases \ DOMAIN SUPPORT = {"BHGI", "GPI"}
        /\ \A key \in DOMAIN SUPPORT :
               key \in DOMAIN Aliases /\ Aliases[key] \in ExternalNames \cup InternalNames

\* C17, where it fails: a short code the class binds and the table lacks
C17_Witness ==
    /\ call.metric = "get_support"
    /\ call.name = "BHGI"
    /\ Aliases["BHGI"] \in InternalNames
    /\ result = Raised("ValueError")

(***************************************************************************)
(* C18: a metric called again on the same evaluator with the inputs and    *)
(* options of an earlier call yields the output of that earlier call, the  *)
(* same value or the same error, whatever was called in between.           *)
(***************************************************************************)
C18_RepeatedCallSameOutput ==
    (call # NoCall /\ call = last.call) =>
        (result = last.result /\ counts = last.counts)

C18_Witness ==
    /\ call.metric = "rand_score"
    /\ call = last.call
    /\ call.y_true = Some(<< 3, 7 >>)
    /\ call.y_pred = Some(<< 7, 7 >>)
    /\ self_le = Some([y_true |-> {3, 7}, y_pred |-> {7}])
    /\ result.kind = "value"
    /\ result = last.result

\* the labels caller c's call in progress encodes, and the encoder fitted to them
OwnEncoder(c) ==
    LET f == frames[c]
        t == IF f.y_pred = None THEN self_y_true ELSE f.y_true
        p == IF f.y_pred = None THEN self_y_pred ELSE f.y_pred
    IN  IF f.method = "get_processed_external_data"
        THEN format_external_clustering_data(Get(t), Get(p)).le
        ELSE format_internal_clustering_data(Get(p)).le

(***************************************************************************)
(* C19: when two metric calls on one shared ClusteringMetric instance are  *)
(* interleaved, the encoder get_processed_external_data /                  *)
(* get_processed_internal_data returns to each call is the encoder built   *)
(* from that call's own labels.                                            *)
(***************************************************************************)
C19_AsStated ==
    \A c \in Callers :
        frames[c].pc = "returned" => frames[c].le = Some(OwnEncoder(c))

\* C19, where it fails: caller 1 encoded [3, 3] against [3, 3] and is handed
\* the encoder caller 2 fitted to [7, 7] in between
C19_Witness ==
    /\ frames[1].pc = "returned"
    /\ frames[1].method = "get_processed_external_data"
    /\ frames[1].y_true = Some(<< 3, 3 >>)
    /\ frames[1].y_pred = Some(<< 3, 3 >>)
    /\ frames[2].pc = "stored"
    /\ frames[2].y_pred = Some(<< 7, 7 >>)
    /\ frames[1].le = Some(OwnEncoder(2))
    /\ OwnEncoder(1) # OwnEncoder(2)

(***************************************************************************)
(* C20: a metric call leaves all state of the evaluator instance           *)
(* unchanged: the context (decimal, raise_error, biggest_value,            *)
(* smallest_value, stored y_true / y_pred / X) is only read, and no other  *)
(* attribute of the instance is written.                                   *)
(***************************************************************************)
C20_AsStated == [][UNCHANGED << context, self_le >>]_vars

\* C20, what the code does: the context is left alone, and self.le is the one
\* attribute a call writes
C20_ContextUnchanged == [][UNCHANGED context]_vars

\* C20, where it fails: after rand_score(y_true, y_pred) the instance holds
\* the encoder of the labels that call was given
C20_Witness ==
    /\ call.metric = "rand_score"
    /\ call.y_true = Some(<< 3, 7 >>)
    /\ call.y_pred = Some(<< 7, 7 >>)
    /\ self_y_true = None
    /\ result.kind = "value"
    /\ self_le = Some([y_true |-> {3, 7}, y_pred |-> {7}])

(***************************************************************************)
(* C21: for every contingency tuple (yy, yn, ny, nn) whose denominators    *)
(* are not zero, precision_score returns yy/(yy+ny), recall_score          *)
(* yy/(yy+yn), jaccard_score yy/(yy+yn+ny) and rogers_tanimoto_score       *)
(* (yy+nn)/(yy+nn+2(yn+ny)), each rounded half-to-even to `decimal`        *)
(* fractional digits.                                                      *)
(***************************************************************************)
\* numerator / denominator rounded to the precision of the last call
RoundedQuotient(numerator, denominator) ==
    LET scale == Pow10(UsedDecimal)
    IN  Returned(Rat(RoundHalfEven(numerator * scale, denominator), scale))

C21_ContingencyQuotients ==
    (~Idle /\ HasLabels) =>
        LET cm == CmCounts(UsedTrue, UsedPred)
            yy == cm[1]
            yn == cm[2]
            ny == cm[3]
            nn == cm[4]
        IN  /\ (call.metric = "precision_score" /\ yy + ny # 0) =>
                   result = RoundedQuotient(yy, yy + ny)
            /\ (call.metric = "recall_score" /\ yy + yn # 0) =>
                   result = RoundedQuotient(yy, yy + yn)
            /\ (call.metric = "jaccard_score" /\ yy + yn + ny # 0) =>
                   result = RoundedQuotient(yy, yy + yn + ny)
            /\ (call.metric = "rogers_tanimoto_score" /\ yy + nn + 2 * (yn + ny) # 0) =>
                   result = RoundedQuotient(yy + nn, yy + nn + 2 * (yn + ny))

C21_Witness ==
    /\ Called("rogers_tanimoto_score")
    /\ \A i \in 1..4 : counts[i] > 0
    /\ counts[2] + counts[3] = 3
    /\ UsedDecimal = 1
    /\ result = Returned(Rat(3, 10))

(***************************************************************************)
(* Purity from the labels as the caller wrote them.                        *)
(***************************************************************************)
\* the samples of true class c
ClassMembers(c) == { i \in DOMAIN UsedTrue : UsedTrue[i] = c }

\* the size of the largest predicted cluster among the samples of class c
LargestCluster(c) ==
    LET size(l) == Cardinality({ i \in ClassMembers(c) : UsedPred[i] = l })
    IN  CHOOSE m \in { size(l) : l \in Labels } : \A l \in Labels : size(l) <= m

\* N times the purity: the sum of LargestCluster over the true classes
PuritySum ==
    SumOver(Range(UsedTrue), [c \in Range(UsedTrue) |-> LargestCluster(c)])

Group(by, g) == { i \in DOMAIN by : by[i] = g }

\* the shares of the labels of `of` among the samples of group g of `by`
ShareWithin(by, of, g) ==
    [l \in Labels |->
        Rat(Cardinality({ i \in Group(by, g) : of[i] = l }), Cardinality(Group(by, g)))]

\* sum over the groups g of `by` of |g|/N * entropy of the labels of `of` within g
WeightedEntropy(by, of) ==
    RatSumOver(Range(by), [g \in Range(by) |->
        RatMul(Rat(Cardinality(Group(by, g)), Len(by)),
               calculate_entropy(ShareWithin(by, of, g)))])

(***************************************************************************)
(* C23 (as stated): entropy_score is the weighted average, over the        *)
(* predicted clusters, of the entropy of the true-class distribution       *)
(* within each predicted cluster, with weight |cluster|/N.                  *)
(***************************************************************************)
C23_AsStated ==
    Called("entropy_score") =>
        result = Returned(NpRound(WeightedEntropy(UsedPred, UsedTrue), UsedDecimal))

(***************************************************************************)
(* C23 (what the code computes): the groups are the true classes and the   *)
(* distribution inside each is that of the predicted labels.               *)
(***************************************************************************)
C23_GroupedByTrueClass ==
    Called("entropy_score") =>
        result = Returned(NpRound(WeightedEntropy(UsedTrue, UsedPred), UsedDecimal))

C23_Witness ==
    /\ Called("entropy_score")
    /\ UsedTrue = << 3, 3, 3, 3 >>
    /\ UsedPred = << 3, 3, 7, 7 >>
    /\ WeightedEntropy(UsedPred, UsedTrue) = IntNum(0)
    /\ result = Returned(IntNum(1))

(***************************************************************************)
(* Homogeneity from the labels as the caller wrote them: 1 - H(a | b) /    *)
(* H(a), where H(a | b) is the entropy of a inside the groups of b, and 1  *)
(* when a has one class.                                                   *)
(***************************************************************************)
LabelShares(a) ==
    [l \in Labels |-> Rat(Cardinality({ i \in DOMAIN a : a[i] = l }), Len(a))]

Homogeneity(a, b) ==
    IF calculate_entropy(LabelShares(a)) = IntNum(0) THEN IntNum(1)
    ELSE RatSub(IntNum(1), NpTrueDivide(WeightedEntropy(b, a),
                                        calculate_entropy(LabelShares(a))))

(***************************************************************************)
(* C24: v_measure_score is the harmonic mean 2hc/(h+c) of homogeneity h    *)
(* and completeness c, and 0 when h + c = 0; completeness_score(yt, yp)    *)
(* equals homogeneity_score(yp, yt) for all label vectors, and so          *)
(* v_measure_score gives the same outcome when y_true and y_pred are       *)
(* exchanged.                                                              *)
(***************************************************************************)
C24_VMeasureHarmonicSymmetric ==
    LET h == Homogeneity(UsedTrue, UsedPred)
        c == Homogeneity(UsedPred, UsedTrue)
    IN  /\ Called("homogeneity_score") => result = Returned(NpRound(h, UsedDecimal))
        /\ Called("completeness_score") =>
               /\ result = Returned(NpRound(c, UsedDecimal))
               /\ result = Swapped("homogeneity_score")
        /\ Called("v_measure_score") =>
               /\ RatAdd(h, c) = IntNum(0) => result = Returned(IntNum(0))
               /\ RatAdd(h, c) # IntNum(0) =>
                      result = Returned(NpRound(
                          NpTrueDivide(RatMul(IntNum(2), RatMul(h, c)), RatAdd(h, c)),
                          UsedDecimal))
               /\ result = Swapped("v_measure_score")

C24_Witness ==
    /\ Called("v_measure_score")
    /\ Len(UsedTrue) = 4
    /\ Homogeneity(UsedTrue, UsedPred) # Homogeneity(UsedPred, UsedTrue)
    /\ RatLess(IntNum(0), Homogeneity(UsedTrue, UsedPred))
    /\ RatLess(Homogeneity(UsedTrue, UsedPred), IntNum(1))
    /\ RatLess(IntNum(0), Homogeneity(UsedPred, UsedTrue))
    /\ UsedDecimal = 2
    /\ result = Swapped("v_measure_score")
    /\ result # Swapped("homogeneity_score")

\* v_measure_score on independent partitions: h + c = 0 and the score is 0
C24_WitnessZero ==
    /\ Called("v_measure_score")
    /\ UsedTrue = << 3, 3, 7, 7 >>
    /\ UsedPred = << 3, 7, 3, 7 >>
    /\ RatAdd(Homogeneity(UsedTrue, UsedPred), Homogeneity(UsedPred, UsedTrue)) = IntNum(0)
    /\ result = Returned(IntNum(0))

(***************************************************************************)
(* The fraction of the samples of the arrays the last call scored whose    *)
(* ratio lies in [lo, hi].                                                 *)
(***************************************************************************)
\* num[i] / den[i] lies in the closed interval (never when den[i] is 0)
RatioWithin(num, den, i, lo, hi) ==
    /\ den[i].n # 0
    /\ ~RatLess(NpDiv(num[i], den[i]), lo)
    /\ ~RatLess(hi, NpDiv(num[i], den[i]))

\* over all samples: the share of those with y_pred[i] / y_true[i] in [lo, hi]
FractionPredOverTrue(lo, hi) ==
    LET t == Values(ScoredTrue)
        p == Values(ScoredPred)
    IN  Rat(Cardinality({ i \in DOMAIN t : RatioWithin(p, t, i, lo, hi) }), Len(t))

\* over the samples whose prediction is not zero: the share of those with
\* y_true[i] / y_pred[i] in [lo, hi]; NaN when no sample is left
FractionTrueOverPred(lo, hi) ==
    LET t == Values(ScoredTrue)
        p == Values(ScoredPred)
        kept == { i \in DOMAIN t : p[i].n # 0 }
    IN  NpDiv(IntNum(Cardinality({ i \in kept : RatioWithin(t, p, i, lo, hi) })),
              IntNum(Cardinality(kept)))

(***************************************************************************)
(* C25 (as stated): a10_index returns the fraction of the samples i whose  *)
(* ratio y_pred[i] / y_true[i] lies in the closed interval [0.9, 1.1], and *)
(* a20_index the fraction of those whose ratio lies in [0.8, 1.2].         *)
(***************************************************************************)
C25_AsStated ==
    ScoredOneDim =>
        /\ call.metric = "a10_index" =>
               result = Returned(NpRound(FractionPredOverTrue(Rat(9, 10), Rat(11, 10)),
                                         UsedDecimal))
        /\ call.metric = "a20_index" =>
               result = Returned(NpRound(FractionPredOverTrue(Rat(8, 10), Rat(12, 10)),
                                         UsedDecimal))

(***************************************************************************)
(* C25 (what the code computes): the ratio is y_true[i] / y_pred[i], and   *)
(* the fraction is taken over the samples whose prediction is not zero.    *)
(***************************************************************************)
C25_TrueOverPredictedRatio ==
    ScoredOneDim =>
        /\ call.metric = "a10_index" =>
               result = Returned(NpRound(FractionTrueOverPred(Rat(9, 10), Rat(11, 10)),
                                         UsedDecimal))
        /\ call.metric = "a20_index" =>
               result = Returned(NpRound(FractionTrueOverPred(Rat(8, 10), Rat(12, 10)),
                                         UsedDecimal))

C25_Witness ==
    /\ call.metric = "a10_index"
    /\ ScoredOneDim
    /\ ScoredTrue.data = << 10 >>
    /\ ScoredPred.data = << 9 >>
    /\ FractionPredOverTrue(Rat(9, 10), Rat(11, 10)) = IntNum(1)
    /\ result = Returned(IntNum(0))

(***************************************************************************)
(* The binned vectors of the last call.                                    *)
(***************************************************************************)
\* the last call binned its arrays: counts holds f_true and f_pred per column
HasBinned == call.metric \in BinnedNames /\ counts # << >>

\* every entry of f is >= 0 and the entries sum to 1
IsMassFunction(f) ==
    /\ \A b \in DOMAIN f : f[b].n >= 0
    /\ RatSumOver(DOMAIN f, f) = IntNum(1)

\* the samples of column k the preprocessing keeps: both values positive
KeptSamples(k) ==
    LET t == ScoredTrue
        p == ScoredPred
        at(a, i) == IF a.ndim = 1 THEN a.data[i] ELSE a.data[i][k]
    IN  { i \in DOMAIN t.data : at(t, i) > 0 /\ at(p, i) > 0 }

\* the distinct true values among the kept samples of column k
DistinctTrue(k) ==
    LET at(i) == IF ScoredTrue.ndim = 1 THEN ScoredTrue.data[i] ELSE ScoredTrue.data[i][k]
    IN  { at(i) : i \in KeptSamples(k) }

(***************************************************************************)
(* C26 (as stated): in cross_entropy, kullback_leibler_divergence and      *)
(* jensen_shannon_divergence the binned vectors f_true and f_pred are      *)
(* probability mass functions: every entry is >= 0 and the entries of      *)
(* each vector sum to 1, for every input with K >= 2 distinct true values. *)
(***************************************************************************)
C26_AsStated ==
    HasBinned =>
        \A k \in DOMAIN counts :
            IsMassFunction(counts[k].f_true) /\ IsMassFunction(counts[k].f_pred)

(***************************************************************************)
(* C26 (what the code computes): with K >= 2 distinct true values the call *)
(* bins into K - 1 bins; f_pred is a probability mass function, and f_true *)
(* has entries >= 0 that sum to N / (K - 1), which is more than 1, because *)
(* the counts are divided by the number of bins and not of samples.        *)
(***************************************************************************)
C26_TrueCountsOverBins ==
    HasBinned =>
        \A k \in DOMAIN counts :
            /\ Cardinality(DistinctTrue(k)) >= 2
            /\ Len(counts[k].f_true) = Cardinality(DistinctTrue(k)) - 1
            /\ Len(counts[k].f_pred) = Cardinality(DistinctTrue(k)) - 1
            /\ IsMassFunction(counts[k].f_pred)
            /\ \A b \in DOMAIN counts[k].f_true : counts[k].f_true[b].n >= 0
            /\ RatSumOver(DOMAIN counts[k].f_true, counts[k].f_true)
                   = Rat(Cardinality(KeptSamples(k)), Cardinality(DistinctTrue(k)) - 1)
            /\ RatLess(IntNum(1), RatSumOver(DOMAIN counts[k].f_true, counts[k].f_true))

C26_Witness ==
    /\ call.metric = "cross_entropy"
    /\ call.y_true = Some(Array1(<< 1, 2, 4 >>))
    /\ call.y_pred = Some(Array1(<< 1, 2, 4 >>))
    /\ counts = << [f_true |-> << Rat(1, 1), Rat(1, 2) >>,
                    f_pred |-> << Rat(2, 3), Rat(1, 3) >>] >>
    /\ result.kind = "value"

(***************************************************************************)
(* C27: an external metric resolves its inputs by the call's y_pred alone. *)
(* A call that passes y_pred without y_true raises ValueError, even when   *)
(* the instance holds a y_true.  A call that passes no y_pred scores the   *)
(* instance's y_true and y_pred (ValueError when one is absent), and a     *)
(* y_true it passes is ignored.  The label vectors of the call are scored  *)
(* only when both are passed.                                              *)
(***************************************************************************)
\* the outcome and the stored encoder when the vectors t and p are scored
ScoresVectors(t, p) ==
    /\ result = ExternalScore(call.metric, LabelEncode(t), LabelEncode(p), UsedDecimal)
    /\ counts = ExternalCounts(call.metric, LabelEncode(t), LabelEncode(p))
    /\ self_le = Some([y_true |-> Range(t), y_pred |-> Range(p)])

C27_ResolvedByCallPrediction ==
    call.metric \in ExternalNames =>
        /\ (call.y_pred # None /\ call.y_true = None) =>
               result = Raised("ValueError") /\ counts = << >>
        /\ (call.y_pred = None /\ (self_y_true = None \/ self_y_pred = None)) =>
               result = Raised("ValueError") /\ counts = << >>
        /\ (call.y_pred = None /\ self_y_true # None /\ self_y_pred # None) =>
               ScoresVectors(Get(self_y_true), Get(self_y_pred))
        /\ (call.y_pred # None /\ call.y_true # None) =>
               ScoresVectors(Get(call.y_true), Get(call.y_pred))

\* a passed y_true that would change the score is ignored
C27_Witness ==
    /\ call.metric = "rand_score"
    /\ call.y_pred = None
    /\ call.y_true = Some(<< 3, 3 >>)
    /\ self_y_true = Some(<< 7, 3 >>)
    /\ self_y_pred = Some(<< 3, 3 >>)
    /\ result = Returned(IntNum(0))
    /\ rand_score(LabelEncode(Get(call.y_true)), LabelEncode(Get(self_y_pred)), UsedDecimal)
           = Returned(IntNum(1))

\* y_pred passed without y_true, on an instance that holds a y_true
C27_WitnessRaise ==
    /\ call.metric = "rand_score"
    /\ call.y_pred # None
    /\ call.y_true = None
    /\ self_y_true # None
    /\ self_y_pred # None
    /\ result = Raised("ValueError")

(***************************************************************************)
(* The within-cluster and between-cluster sample pairs of a call of an     *)
(* internal metric, and their combinations by distance.                    *)
(***************************************************************************)
UsedX == IF call.X = None THEN Get(self_X) ELSE Get(call.X)

SamplePairs == { q \in (DOMAIN UsedX) \X (DOMAIN UsedX) : q[1] < q[2] }

WithinPairs == { q \in SamplePairs : UsedPred[q[1]] = UsedPred[q[2]] }

BetweenPairs == SamplePairs \ WithinPairs

\* the squared Euclidean distance of the two rows of a pair
PairDistance(q) == SqDist(Row(UsedX, q[1]), Row(UsedX, q[2]))

\* within-cluster distance strictly smaller than the between-cluster one
ConcordantCombinations ==
    { c \in WithinPairs \X BetweenPairs : RatLess(PairDistance(c[1]), PairDistance(c[2])) }

\* within-cluster distance strictly larger than the between-cluster one
DiscordantCombinations ==
    { c \in WithinPairs \X BetweenPairs : RatLess(PairDistance(c[2]), PairDistance(c[1])) }

(***************************************************************************)
(* C28, as stated: baker_hubert_gamma_index returns                        *)
(* (s_plus - s_minus)/(s_plus + s_minus), where s_plus and s_minus count   *)
(* every combination of a within-cluster pair and a between-cluster pair   *)
(* by the order of their distances, whatever the enumeration order of the  *)
(* two pairs; 0.0 when s_plus + s_minus = 0, otherwise a value in [-1, 1]. *)
(***************************************************************************)
C28_AsStated ==
    (call.metric = "baker_hubert_gamma_index" /\ result.kind = "value") =>
        LET s_plus == Cardinality(ConcordantCombinations)
            s_minus == Cardinality(DiscordantCombinations)
        IN  /\ counts = << [s_plus |-> s_plus, s_minus |-> s_minus] >>
            /\ result = Returned(IF s_plus + s_minus = 0 THEN IntNum(0)
                                  ELSE NpRound(Rat(s_plus - s_minus, s_plus + s_minus),
                                               UsedDecimal))
            /\ ~RatLess(result.val[1], IntNum(-1))
            /\ ~RatLess(IntNum(1), result.val[1])

\* the within-cluster pair is enumerated last: no combination is counted
C28_Witness ==
    /\ call.metric = "baker_hubert_gamma_index"
    /\ call.X = Some(<< << 0, 0 >>, << 3, 4 >>, << 3, 4 >> >>)
    /\ call.y_pred = Some(<< 3, 7, 7 >>)
    /\ Cardinality(ConcordantCombinations) = 2
    /\ Cardinality(DiscordantCombinations) = 0
    /\ counts = << [s_plus |-> 0, s_minus |-> 0] >>
    /\ result = Returned(IntNum(0))

(***************************************************************************)
(* C29, as stated: g_plus_index returns 2*d / (n_pairs*(n_pairs-1)) with   *)
(* n_pairs = N(N-1)/2 and d the number of combinations of a within-cluster *)
(* pair and a between-cluster pair whose within-cluster distance is the    *)
(* greater one, so it is non-zero whenever such a combination exists.      *)
(***************************************************************************)
C29_AsStated ==
    (call.metric = "g_plus_index" /\ result.kind = "value") =>
        LET N == Len(UsedX)
            n_pairs == (N * (N - 1)) \div 2
            d == Cardinality(DiscordantCombinations)
        IN  /\ result = Returned(NpRound(Rat(2 * d, n_pairs * (n_pairs - 1)), UsedDecimal))
            /\ d > 0 => result # Returned(IntNum(0))

\* a discordant combination among three pairs, and the index is 0.0
C29_Witness ==
    /\ call.metric = "g_plus_index"
    /\ call.X = Some(<< << 0, 0 >>, << 3, 4 >>, << 0, 0 >> >>)
    /\ call.y_pred = Some(<< 3, 3, 7 >>)
    /\ Cardinality(DiscordantCombinations) = 1
    /\ counts = << [num_discordant_pairs |-> 0, n_pairs |-> 3] >>
    /\ result = Returned(IntNum(0))

(***************************************************************************)
(* C30: for label vectors of equal length N >= 2, tau_score counts every   *)
(* unordered pair exactly once, as concordant (same/same or                *)
(* different/different) or as discordant, so                               *)
(* concordant + discordant = N(N-1)/2; the unrounded tau value equals      *)
(* 2 * (unrounded rand_score value) - 1 and lies in [-1, 1].               *)
(***************************************************************************)
\* the unordered sample pairs on which the two labelings agree
AgreeingPairs ==
    { q \in SUBSET (DOMAIN UsedTrue) :
        /\ Cardinality(q) = 2
        /\ \E i, j \in q :
              /\ i # j
              /\ (UsedTrue[i] = UsedTrue[j]) <=> (UsedPred[i] = UsedPred[j]) }

DisagreeingPairs ==
    { q \in SUBSET (DOMAIN UsedTrue) : Cardinality(q) = 2 } \ AgreeingPairs

\* (a + b) / n_pairs of rand_score on the same vectors, before rounding
UnroundedRand ==
    LET ab == rand_counts(LabelEncode(UsedTrue), LabelEncode(UsedPred))
        N == Len(UsedTrue)
    IN  Rat(2 * (ab[1] + ab[2]), N * (N - 1))

C30_TauFromRand ==
    (call.metric = "tau_score" /\ result # Raised("ValueError") /\ Len(UsedTrue) >= 2) =>
        LET N == Len(UsedTrue)
            concordant == counts[1]
            discordant == counts[2]
            tau == Rat(concordant - discordant, concordant + discordant)
        IN  /\ concordant = Cardinality(AgreeingPairs)
            /\ discordant = Cardinality(DisagreeingPairs)
            /\ 2 * (concordant + discordant) = N * (N - 1)
            /\ tau = RatSub(RatMul(IntNum(2), UnroundedRand), IntNum(1))
            /\ ~RatLess(tau, IntNum(-1))
            /\ ~RatLess(IntNum(1), tau)
            /\ result = Returned(NpRound(tau, UsedDecimal))

\* one concordant and two discordant pairs: tau = -1/3 = 2 * (1/3) - 1
C30_Witness ==
    /\ call.metric = "tau_score"
    /\ call.y_true = Some(<< 3, 3, 7 >>)
    /\ call.y_pred = Some(<< 3, 7, 7 >>)
    /\ counts = << 1, 2 >>
    /\ UnroundedRand = Rat(1, 3)
    /\ UsedDecimal = 2
    /\ result = Returned(Rat(-33, 100))

====
